---- MODULE Spec2Model ----
(***************************************************************************)
(* Usage-based overage billing of traceroot-ai/sim: the plan pricing       *)
(* resolver and overage calculator (lib/billing/core/billing.ts) and the   *)
(* Stripe invoice webhook handlers (lib/billing/webhooks/invoices.ts),     *)
(* over the local store (subscription, member, userStats) and the remote   *)
(* payment provider (invoice items and invoices).                          *)
(*                                                                         *)
(* Money is whole dollars.  A missing value (null / undefined) of a        *)
(* string-valued field is NoValue; a missing seat count is 0, which the    *)
(* code treats like null (seats || 1).                                     *)
(***************************************************************************)
EXTENDS Integers, Sequences, FiniteSets, TLC

\* ---------------------------------------------------------------- bounds
MaxUsage == 130
MaxPeriod == 2
MaxItems == 2
MaxInvoices == 2

\* ------------------------------------------------------ program constants
getProTierLimit == 20
getTeamTierLimitPerSeat == 40
getEnterpriseTierLimitPerSeat == 200
BLOCK_ATTEMPT_THRESHOLD == 1
DUNNING_ATTEMPT_THRESHOLD == 3

\* ------------------------------------------------------------- the world
NoValue == "null"
Users == {"u1", "u2"}
Orgs == {"o1"}
Plans == {"free", "pro", "team", "enterprise"}
Periods == 1..MaxPeriod
UsageAmounts == {15, MaxUsage}

\* user table: every user of Users exists; u1 has a Stripe customer, u2 has none
userExists(userId) == userId \in Users
stripeCustomerIdOf(userId) == IF userId = "u1" THEN "cus_u1" ELSE NoValue
\* member.role: u1 is the owner of an organization it belongs to
roleOf(userId) == IF userId = "u1" THEN "owner" ELSE "member"

\* subscription.metadata as stored: absent, or an object with perSeatPrice
\* absent, a number, or a string
NoMetadata == [t |-> "none"]
MetaNum(n) == [t |-> "object", perSeatPrice |-> [t |-> "num", v |-> n]]
MetaStr(s) == [t |-> "object", perSeatPrice |-> [t |-> "str", s |-> s]]
MetaEmpty == [t |-> "object", perSeatPrice |-> [t |-> "none"]]
\* subscription.metadata held as text (typeof metadata === 'string')
MetaText(text) == [t |-> "string", text |-> text]
\* metadata of the earlier allowance scheme: an allowance per seat or in total
MetaPerSeatAllowance(n) ==
    [t |-> "object", perSeatPrice |-> [t |-> "none"], perSeatAllowance |-> [t |-> "num", v |-> n]]
MetaTotalAllowance(n) ==
    [t |-> "object", perSeatPrice |-> [t |-> "none"], totalAllowance |-> [t |-> "num", v |-> n]]
\* the value JSON.parse gives for the text 'null'
MetaNull == [t |-> "null"]

\* JSON.parse(text): the parsed value, or a SyntaxError
JSONparse(text) ==
    CASE text = "{\"perSeatPrice\":75}" -> [threw |-> FALSE, value |-> MetaNum(75)]
      [] text = "{\"perSeatPrice\":\"75\"}" -> [threw |-> FALSE, value |-> MetaStr("75")]
      [] text = "{\"perSeatPrice\":0}" -> [threw |-> FALSE, value |-> MetaNum(0)]
      [] text = "{}" -> [threw |-> FALSE, value |-> MetaEmpty]
      [] text = "null" -> [threw |-> FALSE, value |-> MetaNull]
      [] OTHER -> [threw |-> TRUE, value |-> MetaNull]

\* Number.parseFloat(String(x)): NaN is [nan |-> TRUE]
NaN == [nan |-> TRUE, v |-> 0]
Num(n) == [nan |-> FALSE, v |-> n]
parseFloat(x) ==
    IF x.t = "num" THEN Num(x.v)
    ELSE CASE x.s = "75" -> Num(75)
           [] x.s = "0" -> Num(0)
           [] x.s = "-5" -> Num(-5)
           [] OTHER -> NaN

\* JavaScript truthiness of metadata.perSeatPrice
truthy(x) ==
    CASE x.t = "none" -> FALSE
      [] x.t = "num" -> x.v # 0
      [] x.t = "str" -> x.s # ""

Max(a, b) == IF a > b THEN a ELSE b

VARIABLES
    subscription,   \* local subscription table: a set of rows
    member,         \* member table: the userIds that belong to organization o1
    userStats,      \* userStats table: userId -> row, or a row with exists = FALSE
    invoiceItems,   \* remote: the invoice items created, in order
    invoices,       \* remote: the invoices created by the engine, in order
    idempotency,    \* remote: idempotency keys already used, with their amount
    now,            \* the current month (new Date().toISOString().slice(0, 7))
    inflight,       \* the createOverageBillingInvoice calls in progress, per delivery
    totalUsageLimit, \* the stored usage cap of organization o1 (0: none set)
    organization,   \* organization table: the ids of the rows
    ownerMember,    \* member table: the rows with role 'owner', as <<organizationId, userId>>
    recorded,       \* per user, the usage recorded since the start (a ledger for the checks)
    last            \* the most recent operation and its outcome

vars == <<subscription, member, userStats, invoiceItems, invoices, idempotency, now,
          inflight, totalUsageLimit, organization, ownerMember, recorded, last>>

\* the tables of the team settings and of the organization setup, and the ledger
admin == <<totalUsageLimit, organization, ownerMember, recorded>>


\* two deliveries of one event, handled at the same time
Deliveries == {"d1", "d2"}
Idle == [pc |-> "idle", customer |-> NoValue, amount |-> 0, billingPeriod |-> 0,
         invoiceId |-> 0]

\* ------------------------------------------------------------ the store
IsPooled(plan) == plan = "team" \/ plan = "enterprise"

\* db.select().from(subscription).where(stripeSubscriptionId = id)
\* a variant of the lookup that ignores the provider's id
anySubscription(id) == subscription

subscriptionByStripeId(id) == {s \in subscription : s.stripeSubscriptionId = id}

\* db.select({userId}).from(member).where(organizationId = orgId)
membersOf(orgId) == IF orgId \in Orgs THEN member ELSE {}

NoRow == [exists |-> FALSE, currentPeriodCost |-> 0, lastPeriodCost |-> 0,
          billingBlocked |-> FALSE]

\* getUserUsageData(userId).currentUsage: the current-period cost of the subject
getUserUsageData(userId) ==
    IF userId \in Users /\ userStats[userId].exists
    THEN userStats[userId].currentPeriodCost ELSE 0

\* priority order enterprise > team > pro > free
planPriority(plan) ==
    CASE plan = "enterprise" -> 3 [] plan = "team" -> 2 [] plan = "pro" -> 1 [] OTHER -> 0

\* the active subscriptions of a reference subject with no higher-priority rival
getHighestPrioritySubscription(referenceId) ==
    LET active == {s \in subscription : s.referenceId = referenceId /\ s.status = "active"}
    IN {s \in active : \A t \in active : planPriority(t.plan) <= planPriority(s.plan)}

\* the rows .limit(1) may return for an organization
getOrganizationSubscription(organizationId) ==
    {s \in subscription : s.referenceId = organizationId /\ s.status = "active"}

\* ------------------------------------------------ plan pricing resolver
\* billing.ts 69-82: the enterprise branch once metadata is an object
enterprisePrice(metadata) ==
    IF metadata.t = "object" /\ truthy(metadata.perSeatPrice)
       /\ ~parseFloat(metadata.perSeatPrice).nan
       /\ parseFloat(metadata.perSeatPrice).v > 0
    THEN parseFloat(metadata.perSeatPrice).v
    ELSE getEnterpriseTierLimitPerSeat

Priced(basePrice) == [threw |-> FALSE, basePrice |-> basePrice]
\* an exception that leaves getPlanPricing: the function has no try
PricingThrew == [threw |-> TRUE, basePrice |-> 0]
\* billing.ts 54-88, with the errors it can raise: JSON.parse of text that
\* is not JSON, and the property read on a parsed null
getPlanPricingResult(plan, sub) ==
    CASE plan = "free" -> Priced(0)
      [] plan = "pro" -> Priced(getProTierLimit)
      [] plan = "team" -> Priced(getTeamTierLimitPerSeat)
      [] plan = "enterprise" ->
            IF sub.metadata.t = "string" /\ sub.metadata.text # ""
            THEN IF JSONparse(sub.metadata.text).threw
                    \/ JSONparse(sub.metadata.text).value = MetaNull
                 THEN PricingThrew
                 ELSE Priced(enterprisePrice(JSONparse(sub.metadata.text).value))
            ELSE Priced(enterprisePrice(sub.metadata))
      [] OTHER -> Priced(0)

getPlanPricing(plan, sub) == getPlanPricingResult(plan, sub).basePrice

\* a variant that bills by head count instead of licensed seats
memberCountOf(sub) == Cardinality(membersOf(sub.referenceId))

\* sub.seats || 1
licensedSeatsOf(sub) == IF sub.seats = 0 THEN 1 ELSE sub.seats

RECURSIVE SumUsage(_)
SumUsage(us) ==
    IF us = {} THEN 0
    ELSE LET u == CHOOSE x \in us : TRUE
         IN getUserUsageData(u) + SumUsage(us \ {u})

\* ---------------------------------------------------- overage calculator
NoOverage == [found |-> FALSE, basePrice |-> 0, actualUsage |-> 0, overageAmount |-> 0,
              plan |-> "free"]

\* a variant without the Math.max clamp
calculateUserOverageSigned(userId, subs) ==
    IF ~userExists(userId) THEN NoOverage
    ELSE LET plan == IF subs = {} THEN "free" ELSE (CHOOSE s \in subs : TRUE).plan
             basePrice == IF subs = {} THEN getPlanPricing(plan, [metadata |-> NoMetadata])
                          ELSE getPlanPricing(plan, CHOOSE s \in subs : TRUE)
             actualUsage == getUserUsageData(userId)
         IN [found |-> TRUE, basePrice |-> basePrice, actualUsage |-> actualUsage,
             overageAmount |-> actualUsage - basePrice, plan |-> plan]

\* calculateUserOverage with the subscription row (or none) already resolved
calculateUserOverageWith(userId, subs) ==
    IF ~userExists(userId) THEN NoOverage
    ELSE LET plan == IF subs = {} THEN "free" ELSE (CHOOSE s \in subs : TRUE).plan
             basePrice == IF subs = {} THEN getPlanPricing(plan, [metadata |-> NoMetadata])
                          ELSE getPlanPricing(plan, CHOOSE s \in subs : TRUE)
             actualUsage == getUserUsageData(userId)
         IN [found |-> TRUE, basePrice |-> basePrice, actualUsage |-> actualUsage,
             overageAmount |-> Max(0, actualUsage - basePrice), plan |-> plan]

calculateUserOverage(userId) ==
    calculateUserOverageWith(userId, getHighestPrioritySubscription(userId))

\* the organization overage of processOrganizationOverageBilling
baseSubscriptionAmount(sub) == licensedSeatsOf(sub) * getPlanPricing(sub.plan, sub)
totalTeamUsage(sub) == SumUsage(membersOf(sub.referenceId))
totalOverage(sub) == Max(0, totalTeamUsage(sub) - baseSubscriptionAmount(sub))

\* the overage handleInvoiceCreated / handleInvoiceUpcoming compute for a row:
\* organization branch, then individual branch
handlerOverage(sub) ==
    IF IsPooled(sub.plan)
    THEN Max(0, SumUsage(membersOf(sub.referenceId))
                - (IF sub.seats = 0 THEN 1 ELSE sub.seats) * getPlanPricing(sub.plan, sub))
    ELSE Max(0, getUserUsageData(sub.referenceId) - getPlanPricing(sub.plan, sub))

\* ------------------------------------------------- the payment provider
\* outcomes of the provider calls of one createOverageBillingInvoice
StripeOutcomes == {"paid", "open", "fail_list", "fail_retrieve", "fail_item",
                   "fail_invoice", "fail_finalize"}

\* pending one-off invoice items of a customer (not tied to a subscription)
PendingOf(items, customerId) ==
    {i \in 1..Len(items) : /\ items[i].customer = customerId
                           /\ items[i].subscription = NoValue
                           /\ items[i].invoice = 0}

RECURSIVE SumAmounts(_, _)
SumAmounts(items, idx) ==
    IF idx = {} THEN 0
    ELSE LET i == CHOOSE x \in idx : TRUE
         IN items[i].amount + SumAmounts(items, idx \ {i})

\* Math.round(amountDollars * 100)
toCents(amountDollars) == amountDollars * 100

\* a variant of the result that drops the error message
resultWithoutError(success, chargedAmount, invoiceId, error) ==
    [success |-> success, chargedAmount |-> chargedAmount, invoiceId |-> invoiceId,
     error |-> ""]

BillingResult(success, chargedAmount, invoiceId, error) ==
    [success |-> success, chargedAmount |-> chargedAmount, invoiceId |-> invoiceId,
     error |-> error]

Effect(items, invs, result) == [invoiceItems |-> items, invoices |-> invs, result |-> result]

\* a variant of the search that ignores the billingPeriod tag
existingIgnoringPeriod(invs, customerId, billingPeriod) ==
    {i \in 1..Len(invs) : /\ invs[i].customer = customerId
                          /\ invs[i].created >= billingPeriod
                          /\ invs[i].type = "overage_billing"
                          /\ invs[i].status # "void"}

\* invoices.list({customer, created >= start of the period}).data.find(...)
existingOverageInvoice(invs, customerId, billingPeriod) ==
    {i \in 1..Len(invs) : /\ invs[i].customer = customerId
                          /\ invs[i].created >= billingPeriod
                          /\ invs[i].type = "overage_billing"
                          /\ invs[i].billingPeriod = billingPeriod
                          /\ invs[i].status # "void"}

\* the newest match: the provider lists newest first and find takes the first
newestOf(idx) == CHOOSE i \in idx : \A j \in idx : j <= i

createOverageBillingInvoice(customerId, overageAmount, billingPeriod, out) ==
    IF overageAmount <= 0
    THEN Effect(invoiceItems, invoices, BillingResult(TRUE, 0, 0, ""))
    ELSE IF out = "fail_list"
    THEN Effect(invoiceItems, invoices, BillingResult(FALSE, 0, 0, "list"))
    ELSE IF existingOverageInvoice(invoices, customerId, billingPeriod) # {}
    THEN Effect(invoiceItems, invoices,
                BillingResult(TRUE, 0,
                    newestOf(existingOverageInvoice(invoices, customerId, billingPeriod)), ""))
    ELSE IF out \in {"fail_retrieve", "fail_item"}
    THEN Effect(invoiceItems, invoices, BillingResult(FALSE, 0, 0, out))
    ELSE
      LET item == [customer |-> customerId, subscription |-> NoValue,
                   amount |-> toCents(overageAmount), billingPeriod |-> billingPeriod,
                   invoice |-> 0]
          items1 == Append(invoiceItems, item)
          id == Len(invoices) + 1
          included == PendingOf(items1, customerId)
          items2 == [i \in 1..Len(items1) |->
                        IF i \in included THEN [items1[i] EXCEPT !.invoice = id]
                        ELSE items1[i]]
          invoice == [customer |-> customerId, type |-> "overage_billing",
                      billingPeriod |-> billingPeriod, created |-> now,
                      amount_due |-> SumAmounts(items1, included),
                      status |-> CASE out = "paid" -> "paid"
                                   [] out = "open" -> "open"
                                   [] OTHER -> "draft"]
      IN IF out = "fail_invoice"
         THEN Effect(items1, invoices, BillingResult(FALSE, 0, 0, out))
         ELSE IF out = "fail_finalize"
         THEN Effect(items2, Append(invoices, invoice), BillingResult(FALSE, 0, 0, out))
         ELSE Effect(items2, Append(invoices, invoice),
                     BillingResult(TRUE, overageAmount, id, ""))

\* getStripeCustomerId: the user's customer, else the organization owner's
getStripeCustomerId(referenceId) ==
    IF userExists(referenceId) /\ stripeCustomerIdOf(referenceId) # NoValue
    THEN stripeCustomerIdOf(referenceId)
    ELSE IF referenceId \in Orgs
    THEN LET owners == {u \in membersOf(referenceId) : roleOf(u) = "owner"}
         IN IF owners # {} THEN stripeCustomerIdOf(CHOOSE u \in owners : TRUE)
            ELSE NoValue
    ELSE NoValue

processUserOverageBilling(userId, out) ==
    LET overageInfo == calculateUserOverage(userId)
    IN IF ~overageInfo.found
       THEN Effect(invoiceItems, invoices, BillingResult(FALSE, 0, 0, "calculate"))
       ELSE IF overageInfo.plan = "free"
       THEN Effect(invoiceItems, invoices, BillingResult(TRUE, 0, 0, ""))
       ELSE IF overageInfo.overageAmount <= 0
       THEN Effect(invoiceItems, invoices, BillingResult(TRUE, 0, 0, ""))
       ELSE IF getStripeCustomerId(userId) = NoValue
       THEN Effect(invoiceItems, invoices, BillingResult(FALSE, 0, 0, "customer"))
       ELSE createOverageBillingInvoice(getStripeCustomerId(userId),
                                        overageInfo.overageAmount, now, out)

\* subs: the row getOrganizationSubscription returned, as a set (empty: none)
processOrganizationOverageBilling(organizationId, subs, out) ==
    IF subs = {} \/ ~IsPooled((CHOOSE s \in subs : TRUE).plan)
    THEN Effect(invoiceItems, invoices, BillingResult(FALSE, 0, 0, "subscription"))
    ELSE IF getStripeCustomerId(organizationId) = NoValue
    THEN Effect(invoiceItems, invoices, BillingResult(FALSE, 0, 0, "customer"))
    ELSE IF membersOf(organizationId) = {}
    THEN Effect(invoiceItems, invoices, BillingResult(TRUE, 0, 0, ""))
    ELSE LET sub == CHOOSE s \in subs : TRUE
         IN IF totalOverage(sub) <= 0
            THEN Effect(invoiceItems, invoices, BillingResult(TRUE, 0, 0, ""))
            ELSE createOverageBillingInvoice(getStripeCustomerId(organizationId),
                                             totalOverage(sub), now, out)


\* stripe.invoiceItems.create(..., {idempotencyKey}) of addOverageItem: the
\* provider replays a request repeated under the same key and rejects the key
\* when the parameters differ
addOverageItem(customerId, subscriptionId, amountDollars, billingPeriod, ok) ==
    LET key == <<customerId, subscriptionId, billingPeriod>>
        prior == {k \in idempotency : k.key = key}
        item == [customer |-> customerId, subscription |-> subscriptionId,
                 amount |-> toCents(amountDollars), billingPeriod |-> billingPeriod,
                 invoice |-> 0]
    IN IF ~ok
       THEN [threw |-> TRUE, invoiceItems |-> invoiceItems, idempotency |-> idempotency]
       ELSE IF prior # {}
       THEN [threw |-> (CHOOSE k \in prior : TRUE).amount # toCents(amountDollars),
             invoiceItems |-> invoiceItems, idempotency |-> idempotency]
       ELSE [threw |-> FALSE, invoiceItems |-> Append(invoiceItems, item),
             idempotency |-> idempotency \cup {[key |-> key, amount |-> toCents(amountDollars)]}]

\* --------------------------------------------------------- usage counters
\* a variant of the reset that does not keep the ended period's cost
zeroRow(row) == IF row.exists THEN [row EXCEPT !.currentPeriodCost = 0] ELSE row

resetRow(row) ==
    IF row.exists
    THEN [row EXCEPT !.lastPeriodCost = row.currentPeriodCost, !.currentPeriodCost = 0]
    ELSE row

\* the subjects sharing a subscription: the organization's members or the individual
subjectsOf(sub) == IF IsPooled(sub.plan) THEN membersOf(sub.referenceId)
                   ELSE {sub.referenceId} \cap Users

\* a variant that leaves the counters alone
skipReset(stats, sub) == stats

resetUsageForSubscription(stats, sub) ==
    IF IsPooled(sub.plan)
    THEN [u \in Users |-> IF u \in membersOf(sub.referenceId) THEN resetRow(stats[u])
                          ELSE stats[u]]
    ELSE [u \in Users |-> IF u = sub.referenceId THEN resetRow(stats[u]) ELSE stats[u]]

setBillingBlocked(stats, sub, value) ==
    [u \in Users |-> IF u \in subjectsOf(sub) /\ stats[u].exists
                     THEN [stats[u] EXCEPT !.billingBlocked = value]
                     ELSE stats[u]]

\* ------------------------------------------------------------- operations
NoResult == BillingResult(FALSE, 0, 0, "")
NoArgs == [customer |-> NoValue, amount |-> 0, billingPeriod |-> 0]
\* a customer.subscription.updated payload (none)
NoEvent == [id |-> NoValue, current_period_start |-> 0, current_period_end |-> 0,
            status |-> NoValue, pricePlan |-> NoValue]
Last(op, outcome, result, overage) ==
    [op |-> op, outcome |-> outcome, result |-> result, overage |-> overage,
     info |-> NoOverage, args |-> NoArgs, event |-> NoEvent, fault |-> "none"]
\* a direct call of an exported function: what it was given and what it returned
LastCall(op, args, result, info) ==
    [op |-> op, outcome |-> "handled", result |-> result, overage |-> info.overageAmount,
     info |-> info, args |-> args, event |-> NoEvent, fault |-> "none"]

\* the invoice payloads the provider delivers: a renewal invoice of the local
\* subscription (its first line's period end given, or absent: 0), one of an
\* unknown subscription, an off-cycle invoice, an overage invoice with and
\* without a subscription, and a one-off invoice
InvoiceEvent(subscriptionId, reason, metadataType, periodEnd, attempts) ==
    [subscription |-> subscriptionId, billing_reason |-> reason,
     metadataType |-> metadataType, customer |-> "cus_u1", periodEnd |-> periodEnd,
     attempt_count |-> attempts]

InvoiceEvents ==
    {InvoiceEvent("sub_1", "subscription_cycle", NoValue, p, 0) : p \in 0..MaxPeriod}
    \cup {InvoiceEvent("sub_x", "subscription_cycle", NoValue, 0, 0),
          InvoiceEvent("sub_1", "subscription_update", NoValue, 0, 0),
          InvoiceEvent("sub_1", "manual", "overage_billing", 0, 0),
          InvoiceEvent(NoValue, "manual", "overage_billing", 0, 3),
          InvoiceEvent(NoValue, "manual", NoValue, 0, 0)}

local == <<subscription, member, userStats>>
remote == <<invoiceItems, invoices, idempotency>>

\* test-harness simulateUsage: the subject's current-period cost becomes amount
simulateUsage(userId, amount) ==
    /\ userStats[userId].exists
    /\ userStats' = [userStats EXCEPT ![userId].currentPeriodCost = amount]
    /\ last' = Last("simulateUsage", "handled", NoResult, 0)
    /\ UNCHANGED <<subscription, member, remote, now, inflight, admin>>

handleInvoiceCreated(invoice, ok) ==
    IF invoice.subscription = NoValue \/ invoice.billing_reason # "subscription_cycle"
    THEN /\ last' = Last("handleInvoiceCreated", "ignored", NoResult, 0)
         /\ UNCHANGED <<local, remote, now, inflight, admin>>
    ELSE IF subscriptionByStripeId(invoice.subscription) = {}
    THEN /\ last' = Last("handleInvoiceCreated", "ignored", NoResult, 0)
         /\ UNCHANGED <<local, remote, now, inflight, admin>>
    ELSE \E sub \in subscriptionByStripeId(invoice.subscription) :
         LET billingPeriod == IF invoice.periodEnd = 0 THEN now ELSE invoice.periodEnd
             overage == handlerOverage(sub)
             added == addOverageItem(invoice.customer, invoice.subscription, overage,
                                     billingPeriod, ok)
         IN IF overage > 0 /\ added.threw
            THEN /\ last' = Last("handleInvoiceCreated", "threw", NoResult, 0)
                 /\ UNCHANGED <<local, remote, now, inflight, admin>>
            ELSE /\ overage > 0 => Len(added.invoiceItems) <= MaxItems
                 /\ invoiceItems' = IF overage > 0 THEN added.invoiceItems ELSE invoiceItems
                 /\ idempotency' = IF overage > 0 THEN added.idempotency ELSE idempotency
                 /\ userStats' = resetUsageForSubscription(userStats, sub)
                 /\ last' = Last("handleInvoiceCreated", "handled", NoResult, 0)
                 /\ UNCHANGED <<subscription, member, invoices, now, inflight, admin>>

handleInvoiceUpcoming(invoice, ok) ==
    IF invoice.subscription = NoValue \/ subscriptionByStripeId(invoice.subscription) = {}
    THEN /\ last' = Last("handleInvoiceUpcoming", "ignored", NoResult, 0)
         /\ UNCHANGED <<local, remote, now, inflight, admin>>
    ELSE \E sub \in subscriptionByStripeId(invoice.subscription) :
         LET overage == handlerOverage(sub)
             added == addOverageItem(invoice.customer, invoice.subscription, overage, now, ok)
         IN IF overage > 0 /\ added.threw
            THEN /\ last' = Last("handleInvoiceUpcoming", "threw", NoResult, 0)
                 /\ UNCHANGED <<local, remote, now, inflight, admin>>
            ELSE /\ overage > 0 => Len(added.invoiceItems) <= MaxItems
                 /\ invoiceItems' = IF overage > 0 THEN added.invoiceItems ELSE invoiceItems
                 /\ idempotency' = IF overage > 0 THEN added.idempotency ELSE idempotency
                 /\ last' = Last("handleInvoiceUpcoming", "handled", NoResult, 0)
                 /\ UNCHANGED <<local, invoices, now, inflight, admin>>


OneOrNone(rows) == IF rows = {} THEN {{}} ELSE {{r} : r \in rows}

handleInvoiceFinalized(invoice, out) ==
    IF invoice.metadataType = "overage_billing"
    THEN /\ last' = Last("handleInvoiceFinalized", "ignored", NoResult, 0)
         /\ UNCHANGED <<local, remote, now, inflight, admin>>
    ELSE IF invoice.subscription # NoValue /\ invoice.billing_reason = "subscription_cycle"
    THEN IF subscriptionByStripeId(invoice.subscription) = {}
         THEN /\ last' = Last("handleInvoiceFinalized", "ignored", NoResult, 0)
              /\ UNCHANGED <<local, remote, now, inflight, admin>>
         ELSE \E sub \in subscriptionByStripeId(invoice.subscription) :
              \E subs \in OneOrNone(getOrganizationSubscription(sub.referenceId)) :
              LET eff == IF IsPooled(sub.plan)
                         THEN processOrganizationOverageBilling(sub.referenceId, subs, out)
                         ELSE processUserOverageBilling(sub.referenceId, out)
              IN /\ Len(eff.invoiceItems) <= MaxItems /\ Len(eff.invoices) <= MaxInvoices
                 /\ invoiceItems' = eff.invoiceItems
                 /\ invoices' = eff.invoices
                 /\ last' = Last("handleInvoiceFinalized", "handled",
                                 BillingResult(eff.result.success, 0, 0, ""), 0)
                 /\ UNCHANGED <<local, idempotency, now, inflight, admin>>
    ELSE /\ last' = Last("handleInvoiceFinalized", "ignored", NoResult, 0)
         /\ UNCHANGED <<local, remote, now, inflight, admin>>

\* invoices.ts 52-119: unblock, and reset only if the tenant was blocked
handleInvoicePaymentSucceeded(invoice) ==
    IF invoice.subscription = NoValue \/ subscriptionByStripeId(invoice.subscription) = {}
    THEN /\ last' = Last("handleInvoicePaymentSucceeded", "ignored", NoResult, 0)
         /\ UNCHANGED <<local, remote, now, inflight, admin>>
    ELSE \E sub \in subscriptionByStripeId(invoice.subscription) :
         LET wasBlocked ==
                 IF IsPooled(sub.plan)
                 THEN \E m \in membersOf(sub.referenceId) :
                         userStats[m].exists /\ userStats[m].billingBlocked
                 ELSE /\ sub.referenceId \in Users
                      /\ userStats[sub.referenceId].exists
                      /\ userStats[sub.referenceId].billingBlocked
             unblocked == setBillingBlocked(userStats, sub, FALSE)
         IN /\ userStats' = IF wasBlocked THEN resetUsageForSubscription(unblocked, sub)
                            ELSE unblocked
            /\ last' = Last("handleInvoicePaymentSucceeded", "handled", NoResult, 0)
            /\ UNCHANGED <<subscription, member, remote, now, inflight, admin>>

\* invoices.ts 314-437 and 607-729: reset on every paid subscription-cycle invoice
handleInvoicePaymentSucceededCycle(invoice) ==
    IF invoice.metadataType = "overage_billing"
    THEN /\ last' = Last("handleInvoicePaymentSucceededCycle", "ignored", NoResult, 0)
         /\ UNCHANGED <<local, remote, now, inflight, admin>>
    ELSE IF invoice.subscription = NoValue
            \/ invoice.billing_reason # "subscription_cycle"
            \/ subscriptionByStripeId(invoice.subscription) = {}
    THEN /\ last' = Last("handleInvoicePaymentSucceededCycle", "ignored", NoResult, 0)
         /\ UNCHANGED <<local, remote, now, inflight, admin>>
    ELSE \E sub \in subscriptionByStripeId(invoice.subscription) :
         /\ userStats' = [u \in Users |-> IF u \in subjectsOf(sub) THEN resetRow(userStats[u])
                                          ELSE userStats[u]]
         /\ last' = Last("handleInvoicePaymentSucceededCycle", "handled", NoResult, 0)
         /\ UNCHANGED <<subscription, member, remote, now, inflight, admin>>

\* invoices.ts 125-196: block every subject of the subscription
handleInvoicePaymentFailed(invoice) ==
    LET attemptCount == IF invoice.attempt_count = 0 THEN 1 ELSE invoice.attempt_count
    IN IF invoice.metadataType # "overage_billing"
       THEN /\ last' = Last("handleInvoicePaymentFailed", "ignored", NoResult, 0)
            /\ UNCHANGED <<local, remote, now, inflight, admin>>
       ELSE IF attemptCount >= BLOCK_ATTEMPT_THRESHOLD /\ invoice.subscription # NoValue
               /\ subscriptionByStripeId(invoice.subscription) # {}
       THEN \E sub \in subscriptionByStripeId(invoice.subscription) :
            /\ userStats' = setBillingBlocked(userStats, sub, TRUE)
            /\ last' = Last("handleInvoicePaymentFailed", "handled", NoResult, 0)
            /\ UNCHANGED <<subscription, member, remote, now, inflight, admin>>
       ELSE /\ last' = Last("handleInvoicePaymentFailed", "ignored", NoResult, 0)
            /\ UNCHANGED <<local, remote, now, inflight, admin>>

\* invoices.ts 443-487 and 735-779: the failure is logged, and logged as an
\* error once the attempt count reaches the threshold; nothing is written
handleInvoicePaymentFailedLogOnly(invoice) ==
    LET attemptCount == IF invoice.attempt_count = 0 THEN 1 ELSE invoice.attempt_count
    IN /\ last' = Last("handleInvoicePaymentFailedLogOnly",
                       IF invoice.metadataType # "overage_billing" THEN "ignored"
                       ELSE IF attemptCount >= DUNNING_ATTEMPT_THRESHOLD THEN "escalated"
                       ELSE "handled",
                       NoResult, 0)
       /\ UNCHANGED <<local, remote, now, inflight, admin>>

\* ------------------------------------------------------- the environment
organizationExists == \E s \in subscription : s.referenceId \in Orgs

addMember(userId) ==
    /\ organizationExists
    /\ userId \notin member
    /\ member' = member \cup {userId}
    /\ last' = Last("addMember", "handled", NoResult, 0)
    /\ UNCHANGED <<subscription, userStats, remote, now, inflight, admin>>

removeMember(userId) ==
    /\ userId \in member
    /\ member' = member \ {userId}
    /\ last' = Last("removeMember", "handled", NoResult, 0)
    /\ UNCHANGED <<subscription, userStats, remote, now, inflight, admin>>

\* an operator voids an invoice at the provider
voidInvoice(id) ==
    /\ id \in 1..Len(invoices)
    /\ invoices[id].status # "void"
    /\ invoices' = [invoices EXCEPT ![id].status = "void"]
    /\ last' = Last("voidInvoice", "handled", NoResult, 0)
    /\ UNCHANGED <<local, invoiceItems, idempotency, now, inflight, admin>>

\* ------------------------------------------- calls of the billing functions
callCalculateUserOverage(userId) ==
    /\ last' = LastCall("calculateUserOverage", [NoArgs EXCEPT !.customer = userId],
                        NoResult, calculateUserOverage(userId))
    /\ UNCHANGED <<local, remote, now, inflight, admin>>

callProcessUserOverageBilling(userId, out) ==
    LET eff == processUserOverageBilling(userId, out)
    IN /\ Len(eff.invoiceItems) <= MaxItems /\ Len(eff.invoices) <= MaxInvoices
       /\ invoiceItems' = eff.invoiceItems
       /\ invoices' = eff.invoices
       /\ last' = LastCall("processUserOverageBilling", [NoArgs EXCEPT !.customer = userId],
                           eff.result, calculateUserOverage(userId))
       /\ UNCHANGED <<local, idempotency, now, inflight, admin>>

\* the figures processOrganizationOverageBilling logs before billing
organizationOverageInfo(organizationId, subs) ==
    IF subs = {} \/ ~IsPooled((CHOOSE s \in subs : TRUE).plan)
       \/ getStripeCustomerId(organizationId) = NoValue
       \/ membersOf(organizationId) = {}
    THEN NoOverage
    ELSE LET sub == CHOOSE s \in subs : TRUE
         IN [found |-> TRUE, basePrice |-> baseSubscriptionAmount(sub),
             actualUsage |-> totalTeamUsage(sub), overageAmount |-> totalOverage(sub),
             plan |-> sub.plan]

callProcessOrganizationOverageBilling(organizationId, out) ==
    \E subs \in OneOrNone(getOrganizationSubscription(organizationId)) :
    LET eff == processOrganizationOverageBilling(organizationId, subs, out)
    IN /\ Len(eff.invoiceItems) <= MaxItems /\ Len(eff.invoices) <= MaxInvoices
       /\ invoiceItems' = eff.invoiceItems
       /\ invoices' = eff.invoices
       /\ last' = LastCall("processOrganizationOverageBilling",
                           [NoArgs EXCEPT !.customer = organizationId],
                           eff.result, organizationOverageInfo(organizationId, subs))
       /\ UNCHANGED <<local, idempotency, now, inflight, admin>>

callCreateOverageBillingInvoice(customerId, overageAmount, billingPeriod, out) ==
    LET eff == createOverageBillingInvoice(customerId, overageAmount, billingPeriod, out)
    IN /\ billingPeriod <= now
       /\ Len(eff.invoiceItems) <= MaxItems /\ Len(eff.invoices) <= MaxInvoices
       /\ invoiceItems' = eff.invoiceItems
       /\ invoices' = eff.invoices
       /\ last' = LastCall("createOverageBillingInvoice",
                           [customer |-> customerId, amount |-> overageAmount,
                            billingPeriod |-> billingPeriod],
                           eff.result, NoOverage)
       /\ UNCHANGED <<local, idempotency, now, inflight, admin>>

callResetUsageForSubscription(sub) ==
    /\ userStats' = resetUsageForSubscription(userStats, sub)
    /\ last' = Last("resetUsageForSubscription", "handled", NoResult, 0)
    /\ UNCHANGED <<subscription, member, remote, now, inflight, admin>>

\* ------------------------------- createOverageBillingInvoice, call by call
\* what processUserOverageBilling / processOrganizationOverageBilling hand to
\* createOverageBillingInvoice for a subscription row, if they get that far
overageBillingRequest(sub, subs) ==
    IF IsPooled(sub.plan)
    THEN LET info == organizationOverageInfo(sub.referenceId, subs)
         IN [called |-> info.found /\ info.overageAmount > 0,
             customer |-> getStripeCustomerId(sub.referenceId),
             amount |-> info.overageAmount]
    ELSE LET info == calculateUserOverage(sub.referenceId)
         IN [called |-> /\ info.found /\ info.plan # "free" /\ info.overageAmount > 0
                        /\ getStripeCustomerId(sub.referenceId) # NoValue,
             customer |-> getStripeCustomerId(sub.referenceId),
             amount |-> info.overageAmount]

RaceStep(op) == Last(op, "handled", NoResult, 0)

\* a delivery of the renewal's invoice.finalized reaches createOverageBillingInvoice
deliverFinalized(d) ==
    /\ inflight[d].pc = "idle"
    /\ \E sub \in subscriptionByStripeId("sub_1") :
       \E subs \in OneOrNone(getOrganizationSubscription(sub.referenceId)) :
       LET req == overageBillingRequest(sub, subs)
       IN inflight' = [inflight EXCEPT ![d] =
               IF req.called
               THEN [pc |-> "list", customer |-> req.customer, amount |-> req.amount,
                     billingPeriod |-> now, invoiceId |-> 0]
               ELSE [Idle EXCEPT !.pc = "done"]]
    /\ last' = RaceStep("deliverFinalized")
    /\ UNCHANGED <<local, remote, now, admin>>

\* stripeClient.invoices.list and the search for an invoice of the period
listInvoices(d) ==
    /\ inflight[d].pc = "list"
    /\ LET found == existingOverageInvoice(invoices, inflight[d].customer,
                                           inflight[d].billingPeriod)
       IN inflight' = [inflight EXCEPT ![d] =
               IF found # {}
               THEN [@ EXCEPT !.pc = "done", !.invoiceId = newestOf(found)]
               ELSE [@ EXCEPT !.pc = "retrieve"]]
    /\ last' = RaceStep("listInvoices")
    /\ UNCHANGED <<local, remote, now, admin>>

\* stripeClient.customers.retrieve
retrieveCustomer(d) ==
    /\ inflight[d].pc = "retrieve"
    /\ inflight' = [inflight EXCEPT ![d].pc = "item"]
    /\ last' = RaceStep("retrieveCustomer")
    /\ UNCHANGED <<local, remote, now, admin>>

\* stripeClient.invoiceItems.create
createInvoiceItem(d) ==
    /\ inflight[d].pc = "item"
    /\ invoiceItems' = Append(invoiceItems,
            [customer |-> inflight[d].customer, subscription |-> NoValue,
             amount |-> toCents(inflight[d].amount),
             billingPeriod |-> inflight[d].billingPeriod, invoice |-> 0])
    /\ inflight' = [inflight EXCEPT ![d].pc = "invoice"]
    /\ last' = RaceStep("createInvoiceItem")
    /\ UNCHANGED <<local, invoices, idempotency, now, admin>>

\* stripeClient.invoices.create with pending_invoice_items_behavior 'include':
\* the invoice takes every pending item of the customer; with none pending the
\* provider either rejects the request or creates an empty invoice
createInvoice(d, status, rejectsEmpty) ==
    /\ inflight[d].pc = "invoice"
    /\ LET included == PendingOf(invoiceItems, inflight[d].customer)
           id == Len(invoices) + 1
       IN IF included = {} /\ rejectsEmpty
          THEN /\ inflight' = [inflight EXCEPT ![d].pc = "done"]
               /\ UNCHANGED <<invoiceItems, invoices>>
          ELSE /\ invoices' = Append(invoices,
                      [customer |-> inflight[d].customer, type |-> "overage_billing",
                       billingPeriod |-> inflight[d].billingPeriod, created |-> now,
                       amount_due |-> SumAmounts(invoiceItems, included),
                       status |-> status])
               /\ invoiceItems' = [i \in 1..Len(invoiceItems) |->
                      IF i \in included THEN [invoiceItems[i] EXCEPT !.invoice = id]
                      ELSE invoiceItems[i]]
               /\ inflight' = [inflight EXCEPT ![d] =
                      [@ EXCEPT !.invoiceId = id,
                                !.pc = CASE status = "draft" -> "finalize"
                                         [] status = "open" -> "pay"
                                         [] OTHER -> "done"]]
    /\ last' = RaceStep("createInvoice")
    /\ UNCHANGED <<local, idempotency, now, admin>>

\* stripeClient.invoices.finalizeInvoice of a draft
finalizeInvoice(d, status) ==
    /\ inflight[d].pc = "finalize"
    /\ invoices' = [invoices EXCEPT ![inflight[d].invoiceId].status = status]
    /\ inflight' = [inflight EXCEPT ![d].pc = IF status = "open" THEN "pay" ELSE "done"]
    /\ last' = RaceStep("finalizeInvoice")
    /\ UNCHANGED <<local, invoiceItems, idempotency, now, admin>>

\* stripeClient.invoices.pay of an open invoice; a failed payment is swallowed
payInvoice(d, paid) ==
    /\ inflight[d].pc = "pay"
    /\ invoices' = IF paid THEN [invoices EXCEPT ![inflight[d].invoiceId].status = "paid"]
                   ELSE invoices
    /\ inflight' = [inflight EXCEPT ![d].pc = "done"]
    /\ last' = RaceStep("payInvoice")
    /\ UNCHANGED <<local, invoiceItems, idempotency, now, admin>>

\* ------------------------------------------------------------------ init
\* new Date(seconds * 1000): the stored time, in milliseconds
Date(seconds) == seconds * 1000

SubscriptionRow(plan, referenceId, seats, metadata) ==
    [stripeSubscriptionId |-> "sub_1", plan |-> plan, referenceId |-> referenceId,
     status |-> "active", seats |-> seats, metadata |-> metadata,
     periodStart |-> Date(1), periodEnd |-> Date(2)]

\* the subscriptions of the renewal scenarios
RenewalConfigs ==
    {SubscriptionRow("free", "u1", 0, NoMetadata),
     SubscriptionRow("pro", "u1", 1, NoMetadata),
     SubscriptionRow("team", "o1", 3, NoMetadata),
     SubscriptionRow("enterprise", "o1", 2, MetaStr("75"))}

StatsRow == [exists |-> TRUE, currentPeriodCost |-> 0, lastPeriodCost |-> 0,
             billingBlocked |-> FALSE]

\* no cap stored; the organization tables are those of organization.ts, which
\* start without a row
InitAdmin ==
    /\ totalUsageLimit = 0
    /\ organization = {}
    /\ ownerMember = {}
    /\ recorded = [u \in Users |-> 0]

InitRemote ==
    /\ InitAdmin
    /\ invoiceItems = <<>>
    /\ invoices = <<>>
    /\ idempotency = {}
    /\ now = 1
    /\ inflight = [d \in Deliveries |-> Idle]
    /\ last = Last("init", "handled", NoResult, 0)

\* one subscription; an organization starts with both users as members
InitStore(configs, u2rows) ==
    \E row \in configs :
       /\ subscription = {row}
       /\ member = IF row.referenceId \in Orgs THEN Users ELSE {}
       /\ \E u2row \in (IF row.referenceId \in Orgs THEN u2rows ELSE {NoRow}) :
             userStats = [u \in Users |-> IF u = "u1" THEN StatsRow ELSE u2row]

\* the usage amounts recorded in the renewal scenarios
RenewalUsage(userId) == IF userId = "u1" THEN UsageAmounts ELSE {MaxUsage}
RenewalOutcomes == {"paid", "fail_item"}

Init == InitStore(RenewalConfigs, {StatsRow}) /\ InitRemote

Next ==
    \/ \E u \in Users : \E a \in RenewalUsage(u) : simulateUsage(u, a)
    \/ \E e \in InvoiceEvents, ok \in BOOLEAN : handleInvoiceCreated(e, ok)
    \/ \E e \in InvoiceEvents, ok \in BOOLEAN : handleInvoiceUpcoming(e, ok)
    \/ \E e \in InvoiceEvents, out \in RenewalOutcomes : handleInvoiceFinalized(e, out)
    \/ \E e \in InvoiceEvents : handleInvoicePaymentSucceeded(e)
    \/ \E e \in InvoiceEvents : handleInvoicePaymentSucceededCycle(e)
    \/ \E e \in InvoiceEvents : handleInvoicePaymentFailed(e)

Spec == Init /\ [][Next]_vars


\* ------------------------------------------- the overage calculator alone
PricingConfigs ==
    RenewalConfigs \cup
    {SubscriptionRow("team", "o1", 0, NoMetadata),
     SubscriptionRow("enterprise", "o1", 1, NoMetadata),
     SubscriptionRow("enterprise", "o1", 2, MetaNum(0))}

\* the deliveries whose first line carries no period end
UndatedEvents == {e \in InvoiceEvents : e.periodEnd = 0}

InitOverage == InitStore(PricingConfigs, {StatsRow}) /\ InitRemote

NextOverage ==
    \/ \E u \in Users : \E a \in RenewalUsage(u) : simulateUsage(u, a)
    \/ \E u \in Users : addMember(u)
    \/ \E u \in Users : removeMember(u)
    \/ \E u \in Users \cup {"ghost"} : callCalculateUserOverage(u)
    \/ \E u \in Users, out \in RenewalOutcomes : callProcessUserOverageBilling(u, out)
    \/ \E o \in Orgs, out \in RenewalOutcomes : callProcessOrganizationOverageBilling(o, out)
    \/ \E e \in UndatedEvents, ok \in BOOLEAN : handleInvoiceCreated(e, ok)

SpecOverage == InitOverage /\ [][NextOverage]_vars

\* --------------------------------------- the overage invoice creation alone
InvoiceAmounts == {0, 15}

NextInvoice ==
    \/ \E a \in InvoiceAmounts, p \in Periods, out \in StripeOutcomes :
          callCreateOverageBillingInvoice("cus_u1", a, p, out)
    \/ \E id \in 1..MaxInvoices : voidInvoice(id)

\* any month may be the current one
InitInvoice ==
    /\ InitStore({SubscriptionRow("pro", "u1", 1, NoMetadata)}, {StatsRow})
    /\ InitAdmin
    /\ invoiceItems = <<>>
    /\ invoices = <<>>
    /\ idempotency = {}
    /\ now \in Periods
    /\ inflight = [d \in Deliveries |-> Idle]
    /\ last = Last("init", "handled", NoResult, 0)

SpecInvoice == InitInvoice /\ [][NextInvoice]_vars


\* ------------------------------------------------ the usage reset alone
InitReset == InitStore(RenewalConfigs, {StatsRow, NoRow}) /\ InitRemote

NextReset ==
    \/ \E u \in Users, a \in UsageAmounts : simulateUsage(u, a)
    \/ \E sub \in subscription : callResetUsageForSubscription(sub)
    \/ \E e \in InvoiceEvents, ok \in BOOLEAN : handleInvoiceCreated(e, ok)

SpecReset == InitReset /\ [][NextReset]_vars


\* ------------------------- a renewal: invoice.created and invoice.finalized
NextRenewal ==
    \/ \E u \in Users : \E a \in RenewalUsage(u) : simulateUsage(u, a)
    \/ \E e \in InvoiceEvents, ok \in BOOLEAN : handleInvoiceCreated(e, ok)
    \/ \E e \in InvoiceEvents, out \in RenewalOutcomes : handleInvoiceFinalized(e, out)

SpecRenewal == Init /\ [][NextRenewal]_vars

\* ----------------------------- one event delivered twice, handled at once
NextRace ==
    \/ \E u \in Users : \E a \in RenewalUsage(u) : simulateUsage(u, a)
    \/ \E d \in Deliveries : deliverFinalized(d)
    \/ \E d \in Deliveries : listInvoices(d)
    \/ \E d \in Deliveries : retrieveCustomer(d)
    \/ \E d \in Deliveries : createInvoiceItem(d)
    \/ \E d \in Deliveries, status \in {"draft", "open", "paid"}, rejectsEmpty \in BOOLEAN :
          createInvoice(d, status, rejectsEmpty)
    \/ \E d \in Deliveries, status \in {"open", "paid"} : finalizeInvoice(d, status)
    \/ \E d \in Deliveries, paid \in BOOLEAN : payInvoice(d, paid)

SpecRace == Init /\ [][NextRace]_vars


\* ================================================================ properties
\* what the statements below expect, written from the billing rules rather
\* than from the operators above
StatCost(u) == IF userStats[u].exists THEN userStats[u].currentPeriodCost ELSE 0
ExpectedPerSeat(sub) ==
    CASE sub.plan = "free" -> 0
      [] sub.plan = "pro" -> 20
      [] sub.plan = "team" -> 40
      [] sub.plan = "enterprise" -> IF sub.metadata = MetaStr("75") THEN 75 ELSE 200
ExpectedSeats(sub) == IF sub.seats >= 1 THEN sub.seats ELSE 1
ExpectedPooledUsage ==
    (IF "u1" \in member THEN StatCost("u1") ELSE 0)
    + (IF "u2" \in member THEN StatCost("u2") ELSE 0)
ExpectedPooledOverage(sub) ==
    IF ExpectedPooledUsage > ExpectedSeats(sub) * ExpectedPerSeat(sub)
    THEN ExpectedPooledUsage - ExpectedSeats(sub) * ExpectedPerSeat(sub) ELSE 0
ExpectedIndividualOverage(sub) ==
    IF sub.referenceId \in Users /\ StatCost(sub.referenceId) > ExpectedPerSeat(sub)
    THEN StatCost(sub.referenceId) - ExpectedPerSeat(sub) ELSE 0
ExpectedSubjects(sub) ==
    IF sub.plan \in {"team", "enterprise"} THEN member ELSE {sub.referenceId} \cap Users
IsOverageInvoice(inv, customerId, billingPeriod) ==
    /\ inv.type = "overage_billing"
    /\ inv.customer = customerId
    /\ inv.billingPeriod = billingPeriod
    /\ inv.status # "void"
NonVoidOverageInvoices(customerId, billingPeriod) ==
    {i \in 1..Len(invoices) : IsOverageInvoice(invoices[i], customerId, billingPeriod)}
OverageLineItems(subscriptionId, billingPeriod) ==
    {i \in 1..Len(invoiceItems) : /\ invoiceItems[i].subscription = subscriptionId
                                  /\ invoiceItems[i].billingPeriod = billingPeriod}
PaymentSucceededHandlers ==
    {"handleInvoicePaymentSucceeded", "handleInvoicePaymentSucceededCycle"}

\* C1: under any sequence of invoice.created and invoice.finalized deliveries
\* of one subscription's renewal, at most one overage artifact (an overage line
\* item of the subscription or a non-voided overage invoice of its customer)
\* exists per billing period.  Checked under SpecRenewal.
AtMostOneOverageArtifact ==
    \A p \in Periods :
        Cardinality(OverageLineItems("sub_1", p))
        + Cardinality(NonVoidOverageInvoices("cus_u1", p)) <= 1

\* C2: a subject's currentPeriodCost goes from positive to zero only in a step
\* of a payment-succeeded handler.  Checked under Spec.
ZeroedOnlyOnPaymentSucceeded ==
    [][\A u \in Users :
          (userStats[u].currentPeriodCost > 0 /\ userStats'[u].currentPeriodCost = 0)
          => last'.op \in PaymentSucceededHandlers]_vars

\* C3: a reset that directly follows a reset of the same subscription leaves
\* every subject's currentPeriodCost at 0 and its lastPeriodCost as the first
\* reset left it.  Checked under SpecReset, whose store holds one subscription.
SecondResetKeepsLastPeriodCost ==
    [][(last.op = "resetUsageForSubscription" /\ last'.op = "resetUsageForSubscription")
       => \A u \in Users :
             /\ userStats'[u].currentPeriodCost = 0
             /\ userStats'[u].lastPeriodCost = userStats[u].lastPeriodCost]_vars


\* C4: when createOverageBillingInvoice is called with a positive overage
\* directly after a successful call for the same customer and billing period,
\* the second call creates neither an invoice nor an item, exactly one
\* non-voided overage invoice of the period exists, and the call returns
\* success with chargedAmount 0 and that invoice's id (a failure only when the
\* provider's list call itself fails).  Checked under SpecInvoice, where the
\* billing period is never later than the current month, as in every caller.
CreateTwice ==
    /\ last.op = "createOverageBillingInvoice"
    /\ last'.op = "createOverageBillingInvoice"
    /\ last'.args.customer = last.args.customer
    /\ last'.args.billingPeriod = last.args.billingPeriod
    /\ last.args.amount > 0
    /\ last'.args.amount > 0
    /\ last.result.success
SecondCallCreatesNothing ==
    [][CreateTwice =>
         /\ invoices' = invoices
         /\ invoiceItems' = invoiceItems
         /\ Cardinality(NonVoidOverageInvoices(last.args.customer,
                                               last.args.billingPeriod)) = 1
         /\ \/ /\ last'.result.success
               /\ last'.result.chargedAmount = 0
               /\ last'.result.invoiceId
                     \in NonVoidOverageInvoices(last.args.customer, last.args.billingPeriod)
            \/ /\ ~last'.result.success
               /\ last'.result.error = "list"]_vars

\* C4 witness: a call found the invoice an earlier call created for the period
\* and returned it with nothing charged.
SecondCallFoundExisting ==
    /\ last.op = "createOverageBillingInvoice"
    /\ last.args.amount > 0
    /\ last.result.success
    /\ last.result.chargedAmount = 0
    /\ last.result.invoiceId \in NonVoidOverageInvoices(last.args.customer,
                                                        last.args.billingPeriod)
    /\ Len(invoices) = 1

\* C5: once both concurrent deliveries of the renewal event have run
\* createOverageBillingInvoice to its end, at most one non-voided overage
\* invoice of the customer that charges an amount exists per billing period.
\* Checked under SpecRace.
ConcurrentDeliveriesOneInvoice ==
    (\A d \in Deliveries : inflight[d].pc = "done")
    => \A p \in Periods :
          Cardinality({i \in NonVoidOverageInvoices("cus_u1", p) :
                          invoices[i].amount_due > 0}) <= 1

\* C6: for a free-plan subject the base price is 0, calculateUserOverage
\* reports an overage of 0, and no overage line item is attached for a
\* free-plan subscription.  Checked under SpecOverage.
FreePlanNeverCharged ==
    /\ (last.op = "calculateUserOverage" /\ last.info.found /\ last.info.plan = "free")
       => (last.info.basePrice = 0 /\ last.info.overageAmount = 0)
    /\ \A sub \in subscription :
          sub.plan = "free"
          => \A i \in 1..Len(invoiceItems) :
                invoiceItems[i].subscription # sub.stripeSubscriptionId

\* C7: for an existing user calculateUserOverage returns the user's current
\* usage, the base price of the governing plan (free when the user has no
\* subscription) and overageAmount = max(0, usage - base), never negative.
\* Checked under SpecOverage.
GoverningBasePrice(userId) ==
    IF \E sub \in subscription : sub.referenceId = userId /\ sub.status = "active"
    THEN ExpectedPerSeat(CHOOSE sub \in subscription :
                            sub.referenceId = userId /\ sub.status = "active")
    ELSE 0
UserOverageIsClampedDifference ==
    (last.op = "calculateUserOverage" /\ last.args.customer \in Users)
    => /\ last.info.found
       /\ last.info.actualUsage = StatCost(last.args.customer)
       /\ last.info.basePrice = GoverningBasePrice(last.args.customer)
       /\ last.info.overageAmount >= 0
       /\ last.info.overageAmount =
             (IF last.info.actualUsage > last.info.basePrice
              THEN last.info.actualUsage - last.info.basePrice ELSE 0)

\* C7 witness: the overage of a pro user above the base price was computed.
ProUserOverageComputed ==
    /\ last.op = "calculateUserOverage"
    /\ last.info.plan = "pro"
    /\ last.info.basePrice = 20
    /\ last.info.actualUsage = MaxUsage
    /\ last.info.overageAmount = MaxUsage - 20


\* C8: the organization overage is max(0, sum of the members' usage -
\* licensed seats x base price per seat), with the subscription's seat count
\* (1 when unset) and not the member count: processOrganizationOverageBilling
\* reports exactly these figures, and a completed handleInvoiceCreated attaches
\* exactly this amount, computed from the counters before the event, for a
\* team or enterprise subscription.  Checked under SpecOverage.
OrganizationBilledRight(sub) ==
    (last'.op = "processOrganizationOverageBilling" /\ last'.info.found)
    => /\ last'.info.basePrice = ExpectedSeats(sub) * ExpectedPerSeat(sub)
       /\ last'.info.actualUsage = ExpectedPooledUsage
       /\ last'.info.overageAmount = ExpectedPooledOverage(sub)
AttachedAmount(overage, billingPeriod) ==
    IF overage > 0
    THEN /\ \E k \in idempotency' :
               /\ k.key = <<"cus_u1", "sub_1", billingPeriod>>
               /\ k.amount = 100 * overage
         /\ \/ invoiceItems' = invoiceItems
            \/ /\ Len(invoiceItems') = Len(invoiceItems) + 1
               /\ invoiceItems'[Len(invoiceItems')].amount = 100 * overage
               /\ invoiceItems'[Len(invoiceItems')].subscription = "sub_1"
    ELSE invoiceItems' = invoiceItems /\ idempotency' = idempotency
OrganizationInvoicedRight(sub) ==
    (last'.op = "handleInvoiceCreated" /\ last'.outcome = "handled")
    => AttachedAmount(ExpectedPooledOverage(sub), now)
OrganizationOverageUsesLicensedSeats ==
    [][\A sub \in subscription :
          sub.plan \in {"team", "enterprise"}
          => (OrganizationBilledRight(sub) /\ OrganizationInvoicedRight(sub))]_vars

\* C8 witness: an organization with fewer members than licensed seats was
\* billed a positive overage against the seats' base amount.
FewerMembersThanSeatsBilled ==
    /\ last.op = "processOrganizationOverageBilling"
    /\ last.info.found
    /\ last.info.overageAmount > 0
    /\ \E sub \in subscription :
          /\ Cardinality(member) < sub.seats
          /\ last.info.basePrice = sub.seats * 40

\* C9: a completed handleInvoiceCreated for a cycle-renewal invoice of a known
\* subscription attaches the overage of the pre-event counters when positive
\* and leaves every subject with a stats row at currentPeriodCost 0 and
\* lastPeriodCost = its pre-event usage; an ignored delivery changes nothing.
\* Checked under SpecReset.
CreatedHandled(sub, billingPeriod) ==
    /\ AttachedAmount(IF sub.plan \in {"team", "enterprise"}
                      THEN ExpectedPooledOverage(sub)
                      ELSE ExpectedIndividualOverage(sub), billingPeriod)
    /\ \A u \in Users :
          IF u \in ExpectedSubjects(sub) /\ userStats[u].exists
          THEN /\ userStats'[u].currentPeriodCost = 0
               /\ userStats'[u].lastPeriodCost = userStats[u].currentPeriodCost
               /\ userStats'[u].billingBlocked = userStats[u].billingBlocked
          ELSE userStats'[u] = userStats[u]
RenewalKeepsEndedPeriodCost ==
    [][(/\ last.op = "handleInvoiceCreated" /\ last.outcome = "handled"
        /\ last'.op \in PaymentSucceededHandlers /\ last'.outcome = "handled")
       => \A sub \in subscription : \A u \in ExpectedSubjects(sub) :
             /\ userStats'[u].currentPeriodCost = 0
             /\ userStats'[u].lastPeriodCost = userStats[u].lastPeriodCost]_vars


\* ------------------------------------- payment failures and later payments
NextPayment ==
    \/ \E u \in Users, a \in UsageAmounts : simulateUsage(u, a)
    \/ \E u \in Users : addMember(u)
    \/ \E u \in Users : removeMember(u)
    \/ \E e \in InvoiceEvents : handleInvoicePaymentFailed(e)
    \/ \E e \in InvoiceEvents : handleInvoicePaymentSucceeded(e)

SpecPayment == InitReset /\ [][NextPayment]_vars

\* C11: a handled invoice.payment_succeeded (invoices.ts 52-119) leaves every
\* subject of the subscription with a stats row unblocked, resets the usage of
\* every such subject when at least one of them was blocked before the event,
\* and otherwise leaves every counter as it was; nobody else is touched.
\* Checked under SpecPayment.
SomeSubjectBlocked(sub) ==
    \E u \in ExpectedSubjects(sub) : userStats[u].exists /\ userStats[u].billingBlocked
PaymentSucceededEffect(sub) ==
    \A u \in Users :
       IF u \in ExpectedSubjects(sub) /\ userStats[u].exists
       THEN /\ ~userStats'[u].billingBlocked
            /\ IF SomeSubjectBlocked(sub)
               THEN /\ userStats'[u].currentPeriodCost = 0
                    /\ userStats'[u].lastPeriodCost = userStats[u].currentPeriodCost
               ELSE /\ userStats'[u].currentPeriodCost = userStats[u].currentPeriodCost
                    /\ userStats'[u].lastPeriodCost = userStats[u].lastPeriodCost
       ELSE userStats'[u] = userStats[u]
OverageInvoiceEvents == {e \in InvoiceEvents : e.metadataType = "overage_billing"}

NextOveragePaid ==
    \/ \E u \in Users, a \in UsageAmounts : simulateUsage(u, a)
    \/ \E e \in InvoiceEvents : handleInvoicePaymentFailed(e)
    \/ \E e \in OverageInvoiceEvents : handleInvoicePaymentSucceeded(e)
    \/ \E e \in OverageInvoiceEvents : handleInvoicePaymentSucceededCycle(e)

SpecOveragePaid == InitReset /\ [][NextOveragePaid]_vars

\* C12: handling invoice.payment_succeeded for an overage-type invoice changes
\* no usage counter, no lastPeriodCost and no billingBlocked flag.  Checked
\* under SpecOveragePaid, where every paid invoice delivered is overage-type.
OveragePaymentChangesNothing ==
    [][last'.op \in PaymentSucceededHandlers
       => UNCHANGED <<subscription, member, userStats>>]_vars


\* --------------------- failed payments of an overage invoice, third attempt
EscalatedEvents ==
    {InvoiceEvent("sub_1", "manual", "overage_billing", 0, DUNNING_ATTEMPT_THRESHOLD)}

NextFailed ==
    \/ \E u \in Users, a \in UsageAmounts : simulateUsage(u, a)
    \/ \E u \in Users : addMember(u)
    \/ \E u \in Users : removeMember(u)
    \/ \E e \in EscalatedEvents : handleInvoicePaymentFailed(e)
    \/ \E e \in EscalatedEvents : handleInvoicePaymentFailedLogOnly(e)
    \/ \E e \in InvoiceEvents : handleInvoicePaymentSucceeded(e)

SpecFailed == InitReset /\ [][NextFailed]_vars

\* C13: after invoice.payment_failed for an overage-type invoice of the
\* subscription at the attempt threshold, every subject of the subscription
\* with a stats row is billing-blocked and nothing but the flags has changed.
\* Checked under SpecFailed, where every failed payment delivered is one.
PaymentFailedHandlers == {"handleInvoicePaymentFailed", "handleInvoicePaymentFailedLogOnly"}
FailedPaymentBlocksSubjects ==
    [][last'.op \in PaymentFailedHandlers
       => \A sub \in subscription : \A u \in Users :
             IF u \in ExpectedSubjects(sub) /\ userStats[u].exists
             THEN userStats'[u] = [userStats[u] EXCEPT !.billingBlocked = TRUE]
             ELSE userStats'[u] = userStats[u]]_vars


\* C14: handleInvoiceCreated does not throw when the provider call that
\* attaches the overage line item fails: no delivery of invoice.created ends
\* with the error thrown out of the handler.
CreatedNeverThrows == ~(last.op = "handleInvoiceCreated" /\ last.outcome = "threw")

\* --------------------- invoice.finalized when the overage billing fails
\* the outcome of a delivery whose error leaves the handler
failDelivery(error) == "threw"
\* invoices.ts 869-878: the catch around the overage billing logs the
\* exception and does not throw
overageBillingCatch(error) == "handled"

\* handleInvoiceFinalized when the awaited overage billing rejects: before it
\* wrote anything (the import fails) or after it did (completed = TRUE)
handleInvoiceFinalizedBillingThrows(invoice, completed, out) ==
    /\ invoice.metadataType # "overage_billing"
    /\ invoice.subscription # NoValue /\ invoice.billing_reason = "subscription_cycle"
    /\ \E sub \in subscriptionByStripeId(invoice.subscription) :
       \E subs \in OneOrNone(getOrganizationSubscription(sub.referenceId)) :
       LET eff == IF IsPooled(sub.plan)
                  THEN processOrganizationOverageBilling(sub.referenceId, subs, out)
                  ELSE processUserOverageBilling(sub.referenceId, out)
       IN /\ Len(eff.invoiceItems) <= MaxItems /\ Len(eff.invoices) <= MaxInvoices
          /\ invoiceItems' = IF completed THEN eff.invoiceItems ELSE invoiceItems
          /\ invoices' = IF completed THEN eff.invoices ELSE invoices
          /\ last' = Last("handleInvoiceFinalizedBillingThrows",
                          overageBillingCatch("overageBillingError"), NoResult, 0)
          /\ UNCHANGED <<local, idempotency, now, inflight, admin>>

\* the renewal invoices of the local subscription
CycleEvents ==
    {e \in InvoiceEvents : /\ e.subscription = "sub_1"
                           /\ e.billing_reason = "subscription_cycle"
                           /\ e.metadataType # "overage_billing"}

NextFinalized ==
    \/ \E u \in Users : \E a \in RenewalUsage(u) : simulateUsage(u, a)
    \/ \E e \in EscalatedEvents : handleInvoicePaymentFailed(e)
    \/ \E e \in CycleEvents, out \in RenewalOutcomes : handleInvoiceFinalized(e, out)
    \/ \E e \in CycleEvents, completed \in BOOLEAN, out \in RenewalOutcomes :
          handleInvoiceFinalizedBillingThrows(e, completed, out)

SpecFinalized == Init /\ [][NextFinalized]_vars

\* C15: handleInvoiceFinalized for a subscription-cycle invoice with a
\* matching local subscription returns normally whenever the overage billing
\* fails, by a failure result or by throwing, and changes no usage counter
\* and no blocked flag.
FinalizedHandlers == {"handleInvoiceFinalized", "handleInvoiceFinalizedBillingThrows"}
FinalizedSurvivesBillingFailure ==
    [][(last'.op \in FinalizedHandlers /\ ~last'.result.success)
       => /\ last'.outcome = "handled"
          /\ UNCHANGED <<subscription, member, userStats>>]_vars
BillingThrewWhileBlockedOverLimit ==
    /\ last.op = "handleInvoiceFinalizedBillingThrows"
    /\ last.outcome = "handled"
    /\ \E u \in Users : /\ userStats[u].exists
                        /\ userStats[u].billingBlocked
                        /\ userStats[u].currentPeriodCost = MaxUsage

\* ------------------------------------------ customer.subscription.updated
\* the subscription payloads the provider delivers: of the local subscription
\* and of an unknown one, for a period, with a status, and with or without a
\* plan in the first item's price metadata
SubscriptionEvent(id, periodStart, status, pricePlan) ==
    [id |-> id, current_period_start |-> periodStart,
     current_period_end |-> periodStart + 1, status |-> status, pricePlan |-> pricePlan]

SubscriptionEvents ==
    {SubscriptionEvent(id, p, st, pp) :
        id \in {"sub_1", "sub_x"}, p \in Periods,
        st \in {"active", "past_due", "canceled"}, pp \in {NoValue, "team"}}

\* the outcome of a delivery whose error the handler swallowed
swallowError(error) == "handled"
\* part_002 83-89, invoices.ts 115-118: the handler's catch logs and rethrows
handlerCatch(error) == failDelivery(error)

\* a variant that also writes the plan of the payload
writeAlsoPlan(row, stripeSubscription) ==
    [row EXCEPT !.periodStart = Date(stripeSubscription.current_period_start),
                !.periodEnd = Date(stripeSubscription.current_period_end),
                !.status = stripeSubscription.status,
                !.plan = IF stripeSubscription.pricePlan # NoValue
                         THEN stripeSubscription.pricePlan ELSE row.plan]
\* part_002 62-71: update(subscription).set({periodStart, periodEnd, status})
updateSubscriptionRow(row, stripeSubscription) ==
    [row EXCEPT !.periodStart = Date(stripeSubscription.current_period_start),
                !.periodEnd = Date(stripeSubscription.current_period_end),
                !.status = stripeSubscription.status]

\* part_002 13-89; fault: the store operation that fails, if one does
handleSubscriptionUpdated(stripeSubscription, fault) ==
    LET done(outcome) ==
            [Last("handleSubscriptionUpdated", outcome, NoResult, 0)
                EXCEPT !.event = stripeSubscription, !.fault = fault]
    IN IF fault = "select"
       THEN /\ last' = done(handlerCatch("select"))
            /\ UNCHANGED <<local, remote, now, inflight, admin>>
       ELSE IF subscriptionByStripeId(stripeSubscription.id) = {}
       THEN /\ last' = [done("ignored") EXCEPT !.fault = "none"]
            /\ UNCHANGED <<local, remote, now, inflight, admin>>
       ELSE IF fault = "update"
       THEN /\ last' = done(handlerCatch("update"))
            /\ UNCHANGED <<local, remote, now, inflight, admin>>
       ELSE /\ subscription' =
                {IF row.stripeSubscriptionId = stripeSubscription.id
                 THEN updateSubscriptionRow(row, stripeSubscription) ELSE row :
                    row \in subscription}
            /\ last' = done("handled")
            /\ UNCHANGED <<member, userStats, remote, now, inflight, admin>>

\* ------------- invoice.payment_succeeded when a store operation fails
\* invoices.ts 52-119 with a failing store operation: the lookup ("select"),
\* an unblocking update after those of the subjects in `written` ("unblock"),
\* or the reset after the counters of the subjects in `written` were moved
\* ("reset")
handleInvoicePaymentSucceededStoreFails(invoice, fault, written) ==
    LET done == [Last("handleInvoicePaymentSucceededStoreFails", handlerCatch(fault),
                      NoResult, 0) EXCEPT !.fault = fault]
    IN /\ invoice.subscription # NoValue
       /\ IF fault = "select"
          THEN /\ written = {}
               /\ last' = done
               /\ UNCHANGED <<local, remote, now, inflight, admin>>
          ELSE \E sub \in subscriptionByStripeId(invoice.subscription) :
               LET wasBlocked == \E u \in subjectsOf(sub) :
                                    userStats[u].exists /\ userStats[u].billingBlocked
                   unblocked == setBillingBlocked(userStats, sub, FALSE)
               IN /\ written \subseteq subjectsOf(sub)
                  /\ written # subjectsOf(sub)
                  /\ fault = "reset" => wasBlocked
                  /\ userStats' =
                        [u \in Users |->
                            IF fault = "unblock"
                            THEN IF u \in written THEN unblocked[u] ELSE userStats[u]
                            ELSE IF u \in written THEN resetRow(unblocked[u])
                            ELSE unblocked[u]]
                  /\ last' = done
                  /\ UNCHANGED <<subscription, member, remote, now, inflight, admin>>

StoreFaults == {"select", "unblock", "reset"}

\* the deliveries of this scenario: the undated renewal invoices, and the
\* subscription payloads that carry an active status and no plan
PaidEvents == {e \in UndatedEvents : e.billing_reason = "subscription_cycle"}
RenewedEvents == {e \in SubscriptionEvents : e.status = "active" /\ e.pricePlan = NoValue}

NextStoreFault ==
    \/ \E u \in Users : \E a \in RenewalUsage(u) : simulateUsage(u, a)
    \/ \E e \in EscalatedEvents : handleInvoicePaymentFailed(e)
    \/ \E e \in PaidEvents : handleInvoicePaymentSucceeded(e)
    \/ \E e \in PaidEvents, fault \in StoreFaults, written \in SUBSET Users :
          handleInvoicePaymentSucceededStoreFails(e, fault, written)
    \/ \E e \in RenewedEvents, fault \in {"none", "select", "update"} :
          handleSubscriptionUpdated(e, fault)

SpecStoreFault == InitReset /\ [][NextStoreFault]_vars

\* C16: a store operation that fails inside handleSubscriptionUpdated or
\* handleInvoicePaymentSucceeded is rethrown: the delivery fails and is never
\* reported as handled.
StoreFailureIsRethrown == last.fault # "none" => last.outcome = "threw"
ResetFailedHalfway ==
    /\ last.op = "handleInvoicePaymentSucceededStoreFails"
    /\ last.fault = "reset"
    /\ last.outcome = "threw"
    /\ userStats["u1"].exists /\ userStats["u1"].lastPeriodCost = MaxUsage
    /\ userStats["u2"].exists /\ userStats["u2"].currentPeriodCost = MaxUsage

\* C17: createOverageBillingInvoice never throws: a provider failure at any
\* step (listing, customer retrieval, item creation, invoice creation,
\* finalization) is returned as a result with success = false and the error
\* message, and a result that reports a charge names a finalized invoice.
ProviderFailures == {"list", "fail_retrieve", "fail_item", "fail_invoice", "fail_finalize"}
CreateInvoiceReturnsFailures ==
    last.op = "createOverageBillingInvoice" =>
        /\ last.outcome = "handled"
        /\ IF last.result.success
           THEN /\ last.result.error = ""
                /\ last.result.chargedAmount > 0 =>
                      /\ last.result.invoiceId \in 1..Len(invoices)
                      /\ invoices[last.result.invoiceId].status \in {"paid", "open"}
           ELSE /\ last.result.error \in ProviderFailures
                /\ last.result.chargedAmount = 0
FinalizationFailedAndReported ==
    /\ last.op = "createOverageBillingInvoice"
    /\ ~last.result.success
    /\ last.result.error = "fail_finalize"
    /\ \E i \in 1..Len(invoices) : invoices[i].status = "draft"

\* C18: processOrganizationOverageBilling for an organization that has an
\* active team or enterprise subscription and no members returns success with
\* a charged amount of 0.
EmptyOrganizationBilledNothing ==
    (/\ last.op = "processOrganizationOverageBilling"
     /\ member = {}
     /\ \E s \in subscription : /\ s.referenceId = last.args.customer
                                /\ s.plan \in {"team", "enterprise"}
                                /\ s.status = "active")
    => /\ last.result.success
       /\ last.result.chargedAmount = 0

\* ------------------- deliveries that name a subscription unknown locally
UnknownInvoiceEvents ==
    {InvoiceEvent("sub_x", reason, type, 0, attempts) :
        reason \in {"subscription_cycle", "subscription_update", "manual"},
        type \in {NoValue, "overage_billing"},
        attempts \in {0, DUNNING_ATTEMPT_THRESHOLD}}
UnknownSubscriptionEvents == {e \in SubscriptionEvents : e.id = "sub_x"}

NextUnknown ==
    \/ \E u \in Users : \E a \in RenewalUsage(u) : simulateUsage(u, a)
    \/ \E u \in Users : addMember(u)
    \/ \E u \in Users : removeMember(u)
    \/ \E u \in Users, out \in RenewalOutcomes : callProcessUserOverageBilling(u, out)
    \/ \E o \in Orgs, out \in RenewalOutcomes : callProcessOrganizationOverageBilling(o, out)
    \/ \E e \in UnknownSubscriptionEvents : handleSubscriptionUpdated(e, "none")
    \/ \E e \in UnknownInvoiceEvents, ok \in BOOLEAN : handleInvoiceCreated(e, ok)
    \/ \E e \in UnknownInvoiceEvents, ok \in BOOLEAN : handleInvoiceUpcoming(e, ok)
    \/ \E e \in UnknownInvoiceEvents, out \in RenewalOutcomes : handleInvoiceFinalized(e, out)
    \/ \E e \in UnknownInvoiceEvents : handleInvoicePaymentSucceeded(e)
    \/ \E e \in UnknownInvoiceEvents : handleInvoicePaymentSucceededCycle(e)
    \/ \E e \in UnknownInvoiceEvents : handleInvoicePaymentFailed(e)
    \/ \E e \in UnknownInvoiceEvents : handleInvoicePaymentFailedLogOnly(e)

SpecUnknown == Init /\ [][NextUnknown]_vars

\* C19: every webhook handler whose event names a provider subscription id
\* with no matching local subscription returns normally: it does not throw,
\* changes no local state and creates no remote artifact.
WebhookHandlers ==
    {"handleSubscriptionUpdated", "handleInvoiceCreated", "handleInvoiceUpcoming",
     "handleInvoiceFinalized", "handleInvoicePaymentSucceeded",
     "handleInvoicePaymentSucceededCycle", "handleInvoicePaymentFailed",
     "handleInvoicePaymentFailedLogOnly"}
UnknownSubscriptionChangesNothing ==
    [][last'.op \in WebhookHandlers
       => /\ last'.outcome # "threw"
          /\ UNCHANGED <<subscription, member, userStats, invoiceItems, invoices,
                         idempotency>>]_vars
UnknownSubscriptionUpdateIgnored ==
    /\ last.op = "handleSubscriptionUpdated"
    /\ last.event.id = "sub_x"
    /\ last.event.status = "canceled"
    /\ last.outcome = "ignored"
    /\ \A s \in subscription : s.status = "active"
    /\ \E u \in Users : userStats[u].currentPeriodCost = MaxUsage

\* --------------------------- customer.subscription.updated deliveries alone
NextUpdated ==
    \/ \E u \in Users : \E a \in RenewalUsage(u) : simulateUsage(u, a)
    \/ \E e \in EscalatedEvents : handleInvoicePaymentFailed(e)
    \/ \E e \in SubscriptionEvents : handleSubscriptionUpdated(e, "none")

SpecUpdated == InitReset /\ [][NextUpdated]_vars

\* C20: handleSubscriptionUpdated with a matching local subscription
\* overwrites exactly periodStart, periodEnd and status with the event's
\* values; plan, seats, referenceId, the usage counters and the flags are
\* left unchanged, and applying the same event again changes nothing.
ExpectedUpdated(row, event) ==
    [stripeSubscriptionId |-> row.stripeSubscriptionId, plan |-> row.plan,
     referenceId |-> row.referenceId, seats |-> row.seats, metadata |-> row.metadata,
     periodStart |-> event.current_period_start * 1000,
     periodEnd |-> event.current_period_end * 1000,
     status |-> event.status]
UpdateOverwritesPeriodAndStatus ==
    [][(last'.op = "handleSubscriptionUpdated" /\ last'.outcome = "handled")
       => /\ subscription' = {ExpectedUpdated(row, last'.event) : row \in subscription}
          /\ {updateSubscriptionRow(row, last'.event) : row \in subscription'} = subscription'
          /\ UNCHANGED <<member, userStats, invoiceItems, invoices, idempotency>>]_vars
RenewedPastDueWithPlanInPayload ==
    /\ last.op = "handleSubscriptionUpdated"
    /\ last.outcome = "handled"
    /\ last.event.pricePlan = "team"
    /\ \E s \in subscription : /\ s.plan = "pro"
                               /\ s.status = "past_due"
                               /\ s.periodStart = 2000
                               /\ s.periodEnd = 3000
    /\ userStats["u1"].billingBlocked
    /\ userStats["u1"].currentPeriodCost = MaxUsage

\* ------------------------------------ the pricing functions on their own
\* the metadata values a subscription row can carry
MetadataValues ==
    {NoMetadata, MetaEmpty, MetaNum(75), MetaNum(0), MetaNum(-5),
     MetaStr("75"), MetaStr("0"), MetaStr("-5"), MetaStr("abc"), MetaStr(""),
     MetaPerSeatAllowance(50), MetaTotalAllowance(300)}
    \cup {MetaText(text) : text \in {"", "{\"perSeatPrice\":75}", "{\"perSeatPrice\":\"75\"}",
                                      "{\"perSeatPrice\":0}", "{}", "null", "{perSeatPrice"}}

PricingInputs ==
    {[SubscriptionRow(plan, IF plan \in {"team", "enterprise"} THEN "o1" ELSE "u1",
                      seats, metadata) EXCEPT !.status = status] :
        plan \in Plans, seats \in {0, 2, 3}, metadata \in MetadataValues,
        status \in {"active", "canceled"}}

InitPricing ==
    /\ subscription \in {{row} : row \in PricingInputs}
    /\ member = {}
    /\ userStats = [u \in Users |-> StatsRow]
    /\ InitRemote

\* the amount a pricing function returned, or that it threw
Returned(op, sub, result) ==
    [LastCall(op, [NoArgs EXCEPT !.customer = sub.stripeSubscriptionId], NoResult,
              [NoOverage EXCEPT !.plan = sub.plan, !.found = TRUE,
                                !.basePrice = result.basePrice])
        EXCEPT !.outcome = IF result.threw THEN "threw" ELSE "handled"]

callGetPlanPricing(sub) ==
    /\ last' = Returned("getPlanPricing", sub, getPlanPricingResult(sub.plan, sub))
    /\ UNCHANGED <<local, remote, now, inflight, admin>>

\* env.FREE_TIER_COST_LIMIT || DEFAULT_FREE_CREDITS and the tier defaults of
\* @/lib/billing/constants
DEFAULT_FREE_CREDITS == 10
DEFAULT_PRO_TIER_COST_LIMIT == 20
DEFAULT_TEAM_TIER_COST_LIMIT == 40
DEFAULT_ENTERPRISE_TIER_COST_LIMIT == 200

\* no subscription (null)
NoSubscription == [SubscriptionRow(NoValue, NoValue, 0, NoMetadata)
                      EXCEPT !.stripeSubscriptionId = NoValue, !.status = NoValue]

\* metadata.<name> of a metadata value: undefined unless it is an object
\* that has the field
fieldOf(metadata, name) ==
    IF metadata.t = "object" /\ name \in DOMAIN metadata THEN metadata[name]
    ELSE [t |-> "none"]

\* part_001 27-55 (earlier revision): enterprise allowance from
\* metadata.perSeatAllowance or metadata.totalAllowance
getSubscriptionAllowanceV1(sub) ==
    IF sub = NoSubscription \/ sub.status # "active" THEN DEFAULT_FREE_CREDITS
    ELSE LET seats == IF sub.seats = 0 THEN 1 ELSE sub.seats
         IN CASE sub.plan = "pro" -> DEFAULT_PRO_TIER_COST_LIMIT
              [] sub.plan = "team" -> seats * DEFAULT_TEAM_TIER_COST_LIMIT
              [] sub.plan = "enterprise" ->
                    IF truthy(fieldOf(sub.metadata, "perSeatAllowance"))
                    THEN seats * parseFloat(fieldOf(sub.metadata, "perSeatAllowance")).v
                    ELSE IF truthy(fieldOf(sub.metadata, "totalAllowance"))
                    THEN parseFloat(fieldOf(sub.metadata, "totalAllowance")).v
                    ELSE seats * DEFAULT_ENTERPRISE_TIER_COST_LIMIT
              [] OTHER -> DEFAULT_FREE_CREDITS

\* part_001 164-173: the per-seat price of an enterprise subscription, read
\* from metadata?.perSeatPrice without parsing metadata held as text
perSeatPriceOf(sub) ==
    IF truthy(fieldOf(sub.metadata, "perSeatPrice"))
       /\ ~parseFloat(fieldOf(sub.metadata, "perSeatPrice")).nan
       /\ parseFloat(fieldOf(sub.metadata, "perSeatPrice")).v > 0
    THEN parseFloat(fieldOf(sub.metadata, "perSeatPrice")).v
    ELSE DEFAULT_ENTERPRISE_TIER_COST_LIMIT

\* part_001 147-177 (later revision)
getSubscriptionAllowance(sub) ==
    IF sub = NoSubscription \/ sub.status # "active" THEN DEFAULT_FREE_CREDITS
    ELSE LET seats == IF sub.seats = 0 THEN 1 ELSE sub.seats
         IN CASE sub.plan = "pro" -> DEFAULT_PRO_TIER_COST_LIMIT
              [] sub.plan = "team" -> seats * DEFAULT_TEAM_TIER_COST_LIMIT
              [] sub.plan = "enterprise" -> seats * perSeatPriceOf(sub)
              [] OTHER -> DEFAULT_FREE_CREDITS

\* part_001 60-88 (earlier revision): no individual minimum on a team plan,
\* the per-seat figure on an enterprise plan
getPerUserMinimumLimitV1(sub) ==
    IF sub = NoSubscription \/ sub.status # "active" THEN DEFAULT_FREE_CREDITS
    ELSE LET seats == IF sub.seats = 0 THEN 1 ELSE sub.seats
         IN CASE sub.plan = "pro" -> DEFAULT_PRO_TIER_COST_LIMIT
              [] sub.plan = "team" -> 0
              [] sub.plan = "enterprise" ->
                    IF truthy(fieldOf(sub.metadata, "perSeatAllowance"))
                    THEN parseFloat(fieldOf(sub.metadata, "perSeatAllowance")).v
                    ELSE IF truthy(fieldOf(sub.metadata, "totalAllowance"))
                    THEN parseFloat(fieldOf(sub.metadata, "totalAllowance")).v \div seats
                    ELSE DEFAULT_ENTERPRISE_TIER_COST_LIMIT
              [] OTHER -> DEFAULT_FREE_CREDITS

\* part_001 187-216 (later revision): the pooled amount
getPerUserMinimumLimit(sub) ==
    IF sub = NoSubscription \/ sub.status # "active" THEN DEFAULT_FREE_CREDITS
    ELSE LET seats == IF sub.seats = 0 THEN 1 ELSE sub.seats
         IN CASE sub.plan = "pro" -> DEFAULT_PRO_TIER_COST_LIMIT
              [] sub.plan = "team" -> seats * DEFAULT_TEAM_TIER_COST_LIMIT
              [] sub.plan = "enterprise" -> seats * perSeatPriceOf(sub)
              [] OTHER -> DEFAULT_FREE_CREDITS

\* part_001 119-121 and 242-244
getMinimumUsageLimitV1(sub) == getPerUserMinimumLimitV1(sub)
getMinimumUsageLimit(sub) == getPerUserMinimumLimit(sub)

callGetSubscriptionAllowanceV1(sub) ==
    /\ last' = Returned("getSubscriptionAllowanceV1", sub, Priced(getSubscriptionAllowanceV1(sub)))
    /\ UNCHANGED <<local, remote, now, inflight, admin>>
callGetSubscriptionAllowance(sub) ==
    /\ last' = Returned("getSubscriptionAllowance", sub, Priced(getSubscriptionAllowance(sub)))
    /\ UNCHANGED <<local, remote, now, inflight, admin>>
callGetPerUserMinimumLimitV1(sub) ==
    /\ last' = Returned("getPerUserMinimumLimitV1", sub, Priced(getPerUserMinimumLimitV1(sub)))
    /\ UNCHANGED <<local, remote, now, inflight, admin>>
callGetPerUserMinimumLimit(sub) ==
    /\ last' = Returned("getPerUserMinimumLimit", sub, Priced(getPerUserMinimumLimit(sub)))
    /\ UNCHANGED <<local, remote, now, inflight, admin>>
callGetMinimumUsageLimitV1(sub) ==
    /\ last' = Returned("getMinimumUsageLimitV1", sub, Priced(getMinimumUsageLimitV1(sub)))
    /\ UNCHANGED <<local, remote, now, inflight, admin>>
callGetMinimumUsageLimit(sub) ==
    /\ last' = Returned("getMinimumUsageLimit", sub, Priced(getMinimumUsageLimit(sub)))
    /\ UNCHANGED <<local, remote, now, inflight, admin>>

NextPricing ==
    \/ \E sub \in subscription : callGetPlanPricing(sub)
    \/ \E sub \in subscription \cup {NoSubscription} : callGetSubscriptionAllowanceV1(sub)
    \/ \E sub \in subscription \cup {NoSubscription} : callGetSubscriptionAllowance(sub)
    \/ \E sub \in subscription \cup {NoSubscription} : callGetPerUserMinimumLimitV1(sub)
    \/ \E sub \in subscription \cup {NoSubscription} : callGetPerUserMinimumLimit(sub)
    \/ \E sub \in subscription \cup {NoSubscription} : callGetMinimumUsageLimitV1(sub)
    \/ \E sub \in subscription \cup {NoSubscription} : callGetMinimumUsageLimit(sub)

SpecPricing == InitPricing /\ [][NextPricing]_vars

\* C21: getPlanPricing('enterprise', subscription) returns
\* metadata.perSeatPrice when it is a valid positive number (a number or a
\* numeric string, in metadata that is an object or JSON text) and the
\* default enterprise per-seat price in every other case, without raising an
\* error.
ValidPerSeatPrice ==
    {MetaNum(75), MetaStr("75"), MetaText("{\"perSeatPrice\":75}"),
     MetaText("{\"perSeatPrice\":\"75\"}")}
EnterprisePriceOrDefault ==
    \A sub \in subscription :
        (last.op = "getPlanPricing" /\ sub.plan = "enterprise")
        => /\ last.outcome = "handled"
           /\ last.info.basePrice = IF sub.metadata \in ValidPerSeatPrice THEN 75 ELSE 200

\* C23: for every active team or enterprise subscription
\* getSubscriptionAllowance(subscription) equals seats x
\* getPlanPricing(plan, subscription).basePrice (seats defaulting to 1), and
\* for an active pro subscription it equals getPlanPricing('pro').basePrice.
AllowanceHelpers == {"getSubscriptionAllowance", "getSubscriptionAllowanceV1"}
AllowanceAgreesWithPricing ==
    \A sub \in subscription :
        (/\ last.op \in AllowanceHelpers
         /\ last.args.customer = sub.stripeSubscriptionId
         /\ sub.status = "active"
         /\ sub.plan \in {"pro", "team", "enterprise"})
        => /\ ~getPlanPricingResult(sub.plan, sub).threw
           /\ last.info.basePrice =
                 IF sub.plan = "pro" THEN getPlanPricing("pro", sub)
                 ELSE (IF sub.seats >= 1 THEN sub.seats ELSE 1)
                      * getPlanPricing(sub.plan, sub)

\* C24: getPerUserMinimumLimit, and getMinimumUsageLimit with the same value,
\* returns the flat pro minimum for an active pro subscription, the pooled
\* allowance seats x per-seat price for an active team or enterprise
\* subscription, and the default free allowance for a missing or non-active
\* subscription.
MinimumLimitHelpers ==
    {"getPerUserMinimumLimit", "getPerUserMinimumLimitV1",
     "getMinimumUsageLimit", "getMinimumUsageLimitV1"}
ExpectedMinimumLimit(sub) ==
    IF sub.status # "active" THEN 10
    ELSE CASE sub.plan = "pro" -> 20
           [] sub.plan = "team" -> (IF sub.seats >= 1 THEN sub.seats ELSE 1) * 40
           [] sub.plan = "enterprise" ->
                 (IF sub.seats >= 1 THEN sub.seats ELSE 1)
                 * (IF sub.metadata \in {MetaNum(75), MetaStr("75")} THEN 75 ELSE 200)
           [] OTHER -> 10
MinimumLimitIsPooledAllowance ==
    last.op \in MinimumLimitHelpers =>
        /\ last.outcome = "handled"
        /\ last.args.customer = NoValue => last.info.basePrice = 10
        /\ \A sub \in subscription :
              (last.args.customer = sub.stripeSubscriptionId /\ sub.metadata.t # "string")
              => last.info.basePrice = ExpectedMinimumLimit(sub)

\* ------------------------------------------- the team usage cap settings
\* the organization billing data the settings show: the pooled usage, the
\* minimum billing amount seats x per-seat price, and the stored cap
billingData(sub) ==
    [totalCurrentUsage |-> totalTeamUsage(sub),
     minimumBillingAmount |-> baseSubscriptionAmount(sub),
     totalUsageLimit |-> totalUsageLimit]

\* what the admin types into the cap field
CapInputs == {"abc", "0", "100", "150", "300"}
\* Number.parseInt(inputValue, 10) and Number.parseFloat(usageLimit), which
\* agree on these inputs
parseInput(text) ==
    CASE text = "0" -> Num(0)
      [] text = "100" -> Num(100)
      [] text = "150" -> Num(150)
      [] text = "300" -> Num(300)
      [] OTHER -> NaN

\* PUT /api/usage-limits {context: 'organization', limit}: the server refuses
\* a cap below the current usage or below the plan minimum; reachable: whether
\* the request gets a response at all
putUsageLimitOk(sub, limit, reachable) ==
    /\ reachable
    /\ limit >= billingData(sub).totalCurrentUsage
    /\ limit >= billingData(sub).minimumBillingAmount

Submitted(op, outcome, newLimit) ==
    [Last(op, outcome, NoResult, 0) EXCEPT !.args.amount = newLimit]
\* the outcomes of a form submission that sent the update request
RequestSent == {"saved", "failed"}

\* team-usage.tsx 329-379
TeamUsageLimitHandleSubmit(inputValue, reachable) ==
    \E sub \in {s \in subscription : s.referenceId \in Orgs} :
    LET newLimit == parseInput(inputValue)
        currentUsage == billingData(sub).totalCurrentUsage
        minimumLimit == billingData(sub).minimumBillingAmount
        currentLimit == IF totalUsageLimit # 0 THEN totalUsageLimit ELSE minimumLimit
        op == "TeamUsageLimit.handleSubmit"
    IN IF newLimit.nan \/ newLimit.v < minimumLimit
       THEN /\ last' = Submitted(op, "reverted", newLimit.v)
            /\ UNCHANGED <<local, remote, now, inflight, admin>>
       ELSE IF newLimit.v < currentUsage
       THEN /\ last' = Submitted(op, "rejected", newLimit.v)
            /\ UNCHANGED <<local, remote, now, inflight, admin>>
       ELSE IF newLimit.v = currentLimit
       THEN /\ last' = Submitted(op, "unchanged", newLimit.v)
            /\ UNCHANGED <<local, remote, now, inflight, admin>>
       ELSE IF putUsageLimitOk(sub, newLimit.v, reachable)
       THEN /\ totalUsageLimit' = newLimit.v
            /\ last' = Submitted(op, "saved", newLimit.v)
            /\ UNCHANGED <<local, remote, now, inflight, organization, ownerMember, recorded>>
       ELSE /\ last' = Submitted(op, "failed", newLimit.v)
            /\ UNCHANGED <<local, remote, now, inflight, admin>>

\* organization-usage-cap.tsx 66-128
handleUpdateLimit(usageLimit, hasAdminAccess, reachable) ==
    \E sub \in {s \in subscription : s.referenceId \in Orgs} :
    LET newLimit == parseInput(usageLimit)
        minimum == billingData(sub).minimumBillingAmount
        op == "handleUpdateLimit"
    IN IF ~hasAdminAccess
       THEN /\ last' = Submitted(op, "ignored", 0)
            /\ UNCHANGED <<local, remote, now, inflight, admin>>
       ELSE IF newLimit.nan \/ newLimit.v <= 0
       THEN /\ last' = Submitted(op, "rejected", newLimit.v)
            /\ UNCHANGED <<local, remote, now, inflight, admin>>
       ELSE IF newLimit.v < minimum
       THEN /\ last' = Submitted(op, "rejected", newLimit.v)
            /\ UNCHANGED <<local, remote, now, inflight, admin>>
       ELSE IF putUsageLimitOk(sub, newLimit.v, reachable)
       THEN /\ totalUsageLimit' = newLimit.v
            /\ last' = Submitted(op, "saved", newLimit.v)
            /\ UNCHANGED <<local, remote, now, inflight, organization, ownerMember, recorded>>
       ELSE /\ last' = Submitted(op, "failed", newLimit.v)
            /\ UNCHANGED <<local, remote, now, inflight, admin>>

OrganizationConfigs == {row \in RenewalConfigs : row.referenceId \in Orgs}
InitCap == InitStore(OrganizationConfigs, {StatsRow}) /\ InitRemote

NextCap ==
    \/ \E u \in Users : \E a \in RenewalUsage(u) : simulateUsage(u, a)
    \/ \E input \in CapInputs, reachable \in BOOLEAN :
          TeamUsageLimitHandleSubmit(input, reachable)
    \/ \E input \in CapInputs, hasAdminAccess \in BOOLEAN, reachable \in BOOLEAN :
          handleUpdateLimit(input, hasAdminAccess, reachable)

SpecCap == InitCap /\ [][NextCap]_vars

\* C22: when an admin submits a team usage cap below the team's current
\* usage, through TeamUsageLimit.handleSubmit or
\* OrganizationUsageCap.handleUpdateLimit, the update is rejected: no update
\* request is sent and the stored cap stays unchanged.
CapForms == {"TeamUsageLimit.handleSubmit", "handleUpdateLimit"}
CapBelowUsageSendsNothing ==
    [][(/\ last'.op \in CapForms
        /\ last'.outcome # "ignored"
        /\ last'.args.amount > 0
        /\ last'.args.amount < ExpectedPooledUsage)
       => /\ last'.outcome \notin RequestSent
          /\ totalUsageLimit' = totalUsageLimit]_vars

\* ------------------ an organization with more than one active subscription
callGetOrganizationSubscription(organizationId) ==
    \E subs \in OneOrNone(getOrganizationSubscription(organizationId)) :
    /\ last' = LastCall("getOrganizationSubscription",
                        [NoArgs EXCEPT !.customer = organizationId], NoResult,
                        IF subs = {} THEN NoOverage
                        ELSE [NoOverage EXCEPT !.found = TRUE,
                                               !.plan = (CHOOSE s \in subs : TRUE).plan])
    /\ UNCHANGED <<local, remote, now, inflight, admin>>

\* a team row left active next to the enterprise row that replaced it
DuplicateConfigs ==
    {{SubscriptionRow("team", "o1", 3, NoMetadata),
      [SubscriptionRow("enterprise", "o1", 2, meta) EXCEPT !.stripeSubscriptionId = "sub_2"]} :
        meta \in {NoMetadata, MetaStr("75")}}

InitDuplicates ==
    /\ subscription \in DuplicateConfigs
    /\ member = Users
    /\ userStats = [u \in Users |-> StatsRow]
    /\ InitRemote

NextDuplicates ==
    \/ \E u \in Users, a \in UsageAmounts : simulateUsage(u, a)
    \/ \E u \in Users : addMember(u)
    \/ \E u \in Users : removeMember(u)
    \/ \E o \in Orgs : callGetOrganizationSubscription(o)
    \/ \E o \in Orgs, out \in RenewalOutcomes : callProcessOrganizationOverageBilling(o, out)

SpecDuplicates == InitDuplicates /\ [][NextDuplicates]_vars

\* C25: when a reference subject has several active subscriptions, the one
\* that governs billing is the highest-priority one (enterprise > team > pro
\* > free): getOrganizationSubscription returns the highest-priority active
\* subscription of the organization.
HighestPriorityPlan(referenceId) ==
    LET plans == {s.plan : s \in {t \in subscription : t.referenceId = referenceId
                                                       /\ t.status = "active"}}
    IN CASE "enterprise" \in plans -> "enterprise"
         [] "team" \in plans -> "team"
         [] "pro" \in plans -> "pro"
         [] OTHER -> "free"
OrganizationSubscriptionIsHighest ==
    (last.op = "getOrganizationSubscription" /\ last.info.found)
    => last.info.plan = HighestPriorityPlan(last.args.customer)

\* --------------- invoice.created step by step, while usage is recorded
\* the increment usage recording applies to a subject's counter
RecordedAmounts == {15, 50}
recordUsage(userId, amount) ==
    /\ userStats[userId].exists
    /\ recorded[userId] + amount <= MaxUsage
    /\ userStats' = [userStats EXCEPT
                        ![userId].currentPeriodCost = userStats[userId].currentPeriodCost + amount]
    /\ recorded' = [recorded EXCEPT ![userId] = recorded[userId] + amount]
    /\ last' = Last("recordUsage", "handled", NoResult, 0)
    /\ UNCHANGED <<subscription, member, remote, now, inflight, totalUsageLimit,
                   organization, ownerMember>>

\* a delivery of invoice.created in progress: the usage its overage was
\* computed from and the counter value its reset read
CreatedIdle == [pc |-> "idle", usage |-> 0, current |-> 0]

\* invoices.ts 280-283: getUserUsageData and the overage of the individual branch
createdComputeOverage(d) ==
    /\ inflight[d].pc = "idle"
    /\ \E sub \in subscriptionByStripeId("sub_1") :
          inflight' = [inflight EXCEPT ![d] =
                          [pc |-> "attach", usage |-> getUserUsageData(sub.referenceId),
                           current |-> 0]]
    /\ last' = RaceStep("createdComputeOverage")
    /\ UNCHANGED <<local, remote, now, admin>>

\* invoices.ts 285-289: the overage item, when there is an overage
createdAttachItem(d) ==
    /\ inflight[d].pc = "attach"
    /\ \E sub \in subscriptionByStripeId("sub_1") :
       LET overage == Max(0, inflight[d].usage - getPlanPricing(sub.plan, sub))
           added == addOverageItem("cus_u1", "sub_1", overage, now, TRUE)
       IN /\ invoiceItems' = IF overage > 0 THEN added.invoiceItems ELSE invoiceItems
          /\ idempotency' = IF overage > 0 THEN added.idempotency ELSE idempotency
    /\ inflight' = [inflight EXCEPT ![d].pc = "read"]
    /\ last' = RaceStep("createdAttachItem")
    /\ UNCHANGED <<local, invoices, now, admin>>

\* invoices.ts 34-38: resetUsageForSubscription selects currentPeriodCost
createdResetRead(d) ==
    /\ inflight[d].pc = "read"
    /\ \E sub \in subscriptionByStripeId("sub_1") :
          inflight' = [inflight EXCEPT
                          ![d].pc = IF userStats[sub.referenceId].exists THEN "write" ELSE "done",
                          ![d].current = userStats[sub.referenceId].currentPeriodCost]
    /\ last' = RaceStep("createdResetRead")
    /\ UNCHANGED <<local, remote, now, admin>>

\* invoices.ts 40-44: update set lastPeriodCost = current, currentPeriodCost = '0'
createdResetWrite(d) ==
    /\ inflight[d].pc = "write"
    /\ \E sub \in subscriptionByStripeId("sub_1") :
          userStats' = [userStats EXCEPT
                           ![sub.referenceId].lastPeriodCost = inflight[d].current,
                           ![sub.referenceId].currentPeriodCost = 0]
    /\ inflight' = [inflight EXCEPT ![d].pc = "done"]
    /\ last' = RaceStep("createdResetWrite")
    /\ UNCHANGED <<subscription, member, remote, now, admin>>

InitRollover ==
    /\ InitStore({SubscriptionRow("pro", "u1", 1, NoMetadata)}, {StatsRow})
    /\ InitAdmin
    /\ invoiceItems = <<>>
    /\ invoices = <<>>
    /\ idempotency = {}
    /\ now = 1
    /\ inflight = [d \in Deliveries |-> CreatedIdle]
    /\ last = Last("init", "handled", NoResult, 0)

NextRollover ==
    \/ \E a \in RecordedAmounts : recordUsage("u1", a)
    \/ createdComputeOverage("d1")
    \/ createdAttachItem("d1")
    \/ createdResetRead("d1")
    \/ createdResetWrite("d1")

SpecRollover == InitRollover /\ [][NextRollover]_vars

\* C26: no recorded usage is lost at rollover: when usage is added to a
\* subject's currentPeriodCost while handleInvoiceCreated runs, every
\* recorded amount ends up either in the ended period's figures (the billed
\* overage basis and lastPeriodCost) or in the new period's currentPeriodCost.
NoUsageLostAtRollover ==
    inflight["d1"].pc = "done"
    => /\ userStats["u1"].lastPeriodCost = inflight["d1"].usage
       /\ recorded["u1"] = userStats["u1"].lastPeriodCost + userStats["u1"].currentPeriodCost

\* C27: if createOverageBillingInvoice fails after the overage invoice item
\* was created and before an overage invoice exists, a later retry for the
\* same customer and billing period does not bill the overage a second time:
\* the overage items charged to the customer for that period (pending, or on
\* an invoice that is not void) total the overage once.
ChargedItems(customerId, billingPeriod) ==
    {i \in 1..Len(invoiceItems) :
        /\ invoiceItems[i].customer = customerId
        /\ invoiceItems[i].billingPeriod = billingPeriod
        /\ \/ invoiceItems[i].invoice = 0
           \/ invoices[invoiceItems[i].invoice].status # "void"}
RetryBillsOverageOnce ==
    \A p \in Periods :
        SumAmounts(invoiceItems, ChargedItems("cus_u1", p)) <= 15 * 100

\* ------- payment_failed and payment_succeeded handled at the same time
\* a payment handler in progress: the members it still has to update, in the
\* order the member select returned them
PaymentIdle == [pc |-> "idle", todo |-> <<>>, wasBlocked |-> FALSE]
\* the rows of select userId from member where organizationId, as a list
memberRows(organizationId) ==
    IF membersOf(organizationId) = {"u1", "u2"} THEN <<"u1", "u2">>
    ELSE IF membersOf(organizationId) = {} THEN <<>>
    ELSE <<CHOOSE u \in membersOf(organizationId) : TRUE>>

\* invoices.ts 160-173: the subscription and member selects of payment_failed
failedSelectMembers(d) ==
    /\ inflight[d].pc = "idle"
    /\ \E sub \in subscriptionByStripeId("sub_1") :
          /\ IsPooled(sub.plan)
          /\ inflight' = [inflight EXCEPT ![d] =
                [pc |-> IF memberRows(sub.referenceId) = <<>> THEN "done" ELSE "block",
                 todo |-> memberRows(sub.referenceId), wasBlocked |-> FALSE]]
    /\ last' = RaceStep("failedSelectMembers")
    /\ UNCHANGED <<local, remote, now, admin>>

\* invoices.ts 174-179: one turn of the loop that sets billingBlocked
failedBlockMember(d) ==
    /\ inflight[d].pc = "block"
    /\ LET m == Head(inflight[d].todo)
       IN userStats' = [userStats EXCEPT
                           ![m] = IF userStats[m].exists
                                  THEN [userStats[m] EXCEPT !.billingBlocked = TRUE]
                                  ELSE userStats[m]]
    /\ inflight' = [inflight EXCEPT
                       ![d].todo = Tail(inflight[d].todo),
                       ![d].pc = IF Len(inflight[d].todo) = 1 THEN "done" ELSE "block"]
    /\ last' = RaceStep("failedBlockMember")
    /\ UNCHANGED <<subscription, member, remote, now, admin>>

\* invoices.ts 57-98: the selects of payment_succeeded and its wasBlocked scan
succeededSelectMembers(d) ==
    /\ inflight[d].pc = "idle"
    /\ \E sub \in subscriptionByStripeId("sub_1") :
          /\ IsPooled(sub.plan)
          /\ inflight' = [inflight EXCEPT ![d] =
                [pc |-> IF memberRows(sub.referenceId) = <<>> THEN "reset" ELSE "unblock",
                 todo |-> memberRows(sub.referenceId),
                 wasBlocked |-> \E m \in membersOf(sub.referenceId) :
                                   userStats[m].exists /\ userStats[m].billingBlocked]]
    /\ last' = RaceStep("succeededSelectMembers")
    /\ UNCHANGED <<local, remote, now, admin>>

\* invoices.ts 99-104: one turn of the loop that clears billingBlocked
succeededUnblockMember(d) ==
    /\ inflight[d].pc = "unblock"
    /\ LET m == Head(inflight[d].todo)
       IN userStats' = [userStats EXCEPT
                           ![m] = IF userStats[m].exists
                                  THEN [userStats[m] EXCEPT !.billingBlocked = FALSE]
                                  ELSE userStats[m]]
    /\ inflight' = [inflight EXCEPT
                       ![d].todo = Tail(inflight[d].todo),
                       ![d].pc = IF Len(inflight[d].todo) = 1 THEN "reset" ELSE "unblock"]
    /\ last' = RaceStep("succeededUnblockMember")
    /\ UNCHANGED <<subscription, member, remote, now, admin>>

\* invoices.ts 112-114: the reset, when a member was blocked at the start
succeededReset(d) ==
    /\ inflight[d].pc = "reset"
    /\ \E sub \in subscriptionByStripeId("sub_1") :
          userStats' = IF inflight[d].wasBlocked
                       THEN resetUsageForSubscription(userStats, sub) ELSE userStats
    /\ inflight' = [inflight EXCEPT ![d].pc = "done"]
    /\ last' = RaceStep("succeededReset")
    /\ UNCHANGED <<subscription, member, remote, now, admin>>

InitBlocking ==
    /\ InitStore(OrganizationConfigs, {StatsRow})
    /\ InitAdmin
    /\ invoiceItems = <<>>
    /\ invoices = <<>>
    /\ idempotency = {}
    /\ now = 1
    /\ inflight = [d \in Deliveries |-> PaymentIdle]
    /\ last = Last("init", "handled", NoResult, 0)

NextBlocking ==
    \/ \E u \in Users : \E a \in RenewalUsage(u) : simulateUsage(u, a)
    \/ failedSelectMembers("d1")
    \/ failedBlockMember("d1")
    \/ succeededSelectMembers("d2")
    \/ succeededUnblockMember("d2")
    \/ succeededReset("d2")

SpecBlocking == InitBlocking /\ [][NextBlocking]_vars

\* C28: for a pooled subscription with a fixed member set, whenever no
\* payment handler is in progress all members have the same billingBlocked
\* value, even when a payment_failed delivery and a payment_succeeded
\* delivery for the subscription are handled at the same time.
MembersBlockedAlike ==
    (\A d \in Deliveries : inflight[d].pc \in {"idle", "done"})
    => \A m1, m2 \in member :
          userStats[m1].billingBlocked = userStats[m2].billingBlocked

\* C29: when two customer.subscription.updated events of one subscription are
\* delivered newer first and older second (the older one is of an earlier
\* billing period), the local subscription keeps the period bounds and the
\* status of the newer event.
NewerSubscriptionUpdateWins ==
    [][(/\ last.op = "handleSubscriptionUpdated"
        /\ last.outcome = "handled"
        /\ last'.op = "handleSubscriptionUpdated"
        /\ last'.outcome = "handled"
        /\ last'.event.id = last.event.id
        /\ last'.event.current_period_start < last.event.current_period_start)
       => \A row \in subscription' :
             row.stripeSubscriptionId = last.event.id
             => /\ row.periodStart = Date(last.event.current_period_start)
                /\ row.periodEnd = Date(last.event.current_period_end)
                /\ row.status = last.event.status]_vars

\* --------------------------------------------- createOrganizationForTeamPlan
\* the ids crypto.randomUUID() can give a new organization
OrganizationIds == {"org_1", "org_2", "org_3"}
\* a call of createOrganizationForTeamPlan: where it is, for whom, the
\* organization it inserted and what it returned
CallIdle == [pc |-> "idle", userId |-> NoValue, organizationId |-> NoValue,
             result |-> NoValue]
\* organization.ts 27-45: the organizations the two selects can find for a user
existingOrganizations(userId) ==
    {m.organizationId : m \in {o \in ownerMember : o.userId = userId}} \cap organization

\* organization.ts 27-45: the owner-membership check; an existing
\* organization is returned at once
createSelectMembership(d, userId) ==
    /\ inflight[d].pc \in {"idle", "done"}
    /\ organization # OrganizationIds
    /\ \/ /\ existingOrganizations(userId) = {}
          /\ inflight' = [inflight EXCEPT ![d] = [CallIdle EXCEPT !.pc = "insertOrganization",
                                                                  !.userId = userId]]
       \/ \E id \in existingOrganizations(userId) :
             inflight' = [inflight EXCEPT ![d] = [CallIdle EXCEPT !.pc = "done",
                                                                  !.userId = userId,
                                                                  !.result = id]]
    /\ last' = RaceStep("createSelectMembership")
    /\ UNCHANGED <<local, remote, now, totalUsageLimit, organization, ownerMember, recorded>>

\* organization.ts 48-62: insert into organization, with a fresh id
createInsertOrganization(d) ==
    /\ inflight[d].pc = "insertOrganization"
    /\ \E id \in OrganizationIds \ organization :
          /\ organization' = organization \cup {id}
          /\ inflight' = [inflight EXCEPT ![d].pc = "insertMember",
                                          ![d].organizationId = id]
    /\ last' = RaceStep("createInsertOrganization")
    /\ UNCHANGED <<local, remote, now, totalUsageLimit, ownerMember, recorded>>

\* organization.ts 64-89: insert the owner membership and return the new id;
\* when the insert fails the catch logs and rethrows
createInsertMember(d, fault) ==
    /\ inflight[d].pc = "insertMember"
    /\ IF fault = "none"
       THEN /\ ownerMember' = ownerMember \cup
                  {[userId |-> inflight[d].userId,
                    organizationId |-> inflight[d].organizationId]}
            /\ inflight' = [inflight EXCEPT ![d].pc = "done",
                                            ![d].result = inflight[d].organizationId]
       ELSE /\ inflight' = [inflight EXCEPT ![d].pc = "done", ![d].result = "threw"]
            /\ UNCHANGED ownerMember
    /\ last' = [RaceStep("createInsertMember") EXCEPT !.fault = fault]
    /\ UNCHANGED <<local, remote, now, totalUsageLimit, organization, recorded>>

InitCreate ==
    /\ InitStore(RenewalConfigs, {StatsRow})
    /\ InitAdmin
    /\ invoiceItems = <<>>
    /\ invoices = <<>>
    /\ idempotency = {}
    /\ now = 1
    /\ inflight = [d \in Deliveries |-> CallIdle]
    /\ last = Last("init", "handled", NoResult, 0)

NextCreate ==
    \/ \E d \in Deliveries : \E u \in Users : createSelectMembership(d, u)
    \/ \E d \in Deliveries : createInsertOrganization(d)
    \/ \E d \in Deliveries : \E fault \in {"none", "insert"} : createInsertMember(d, fault)

SpecCreate == InitCreate /\ [][NextCreate]_vars

\* C30: createOrganizationForTeamPlan is idempotent per user: when no call is
\* in progress, a user for whom it was called owns exactly one organization,
\* every call for the user returned that organization's id, and no
\* organization row is without an owner membership.
OneOrganizationPerUser ==
    (\A d \in Deliveries : inflight[d].pc \in {"idle", "done"})
    => /\ \A d \in Deliveries :
             inflight[d].pc = "done"
             => /\ Cardinality(existingOrganizations(inflight[d].userId)) = 1
                /\ inflight[d].result \in existingOrganizations(inflight[d].userId)
       /\ \A id \in organization : \E m \in ownerMember : m.organizationId = id

====
